---------------------------- MODULE Spec2Model ----------------------------
(***************************************************************************)
(* A model of the data dashboard's upload pipeline and relational store:   *)
(* POST /api/upload (header parsing, day-column detection, product naming, *)
(* product keys, the inventory rollforward, the Prisma transaction) over   *)
(* the tables DataSet, Product and DailyData.                              *)
(*                                                                         *)
(* Text is modelled as TLA+ strings handled character by character.  A     *)
(* spreadsheet cell is [t, s]: its JavaScript type and the text String()   *)
(* gives for it.  Decimal numbers are exact rationals [n, d].              *)
(***************************************************************************)
EXTENDS Integers, Sequences, FiniteSets, TLC

\* ------------------------------------------------------------------ bounds

\* The number of upload requests of one behaviour.
MaxUploads == 2
\* Date.now() takes the values 0 .. MaxClock.
MaxClock == 1

\* The number of DELETE requests.
MaxDeletes == 2

\* The number of PUT requests.
MaxPuts == 2

\* The number of registrations.
MaxRegistrations == 2

\* ------------------------------------------------------------ text helpers

Ch(s, i) == SubSeq(s, i, i)

Digits == {"0", "1", "2", "3", "4", "5", "6", "7", "8", "9"}

DigitVal ==
  [c \in Digits |->
     CASE c = "0" -> 0 [] c = "1" -> 1 [] c = "2" -> 2 [] c = "3" -> 3
       [] c = "4" -> 4 [] c = "5" -> 5 [] c = "6" -> 6 [] c = "7" -> 7
       [] c = "8" -> 8 [] c = "9" -> 9]

HexLetters == {"a", "b", "c", "d", "e", "f", "A", "B", "C", "D", "E", "F"}

HexVal(c) ==
  CASE c \in Digits -> DigitVal[c]
    [] c \in {"a", "A"} -> 10 [] c \in {"b", "B"} -> 11
    [] c \in {"c", "C"} -> 12 [] c \in {"d", "D"} -> 13
    [] c \in {"e", "E"} -> 14 [] c \in {"f", "F"} -> 15

\* The canonical form of a character under a regular expression's /i flag.
LowerCh(c) ==
  CASE c = "A" -> "a" [] c = "B" -> "b" [] c = "C" -> "c" [] c = "D" -> "d"
    [] c = "E" -> "e" [] c = "F" -> "f" [] c = "G" -> "g" [] c = "H" -> "h"
    [] c = "I" -> "i" [] c = "J" -> "j" [] c = "K" -> "k" [] c = "L" -> "l"
    [] c = "M" -> "m" [] c = "N" -> "n" [] c = "O" -> "o" [] c = "P" -> "p"
    [] c = "Q" -> "q" [] c = "R" -> "r" [] c = "S" -> "s" [] c = "T" -> "t"
    [] c = "U" -> "u" [] c = "V" -> "v" [] c = "W" -> "w" [] c = "X" -> "x"
    [] c = "Y" -> "y" [] c = "Z" -> "z" [] OTHER -> c

RECURSIVE Lower(_)
Lower(s) == IF s = "" THEN "" ELSE LowerCh(Ch(s, 1)) \o Lower(Tail(s))

\* The white space and line terminators that trim, parseInt and parseFloat
\* skip: TAB, LF, VT, FF, CR, SP, NBSP, U+1680 and U+FEFF.  (The other space
\* separators, U+2000 to U+200A, U+202F, U+205F and U+3000, and the line
\* terminators U+2028 and U+2029 are skipped alike; no string constant of
\* this module can hold them.)
WhiteSpace ==
  {" ", "\t", "\n", "\r", "\f", "", " ", " ", "﻿"}

RECURSIVE TrimStart(_)
TrimStart(s) ==
  IF s # "" /\ Ch(s, 1) \in WhiteSpace THEN TrimStart(Tail(s)) ELSE s

RECURSIVE TrimEnd(_)
TrimEnd(s) ==
  IF s # "" /\ Ch(s, Len(s)) \in WhiteSpace
    THEN TrimEnd(SubSeq(s, 1, Len(s) - 1)) ELSE s

\* String.prototype.trim
trim(s) == TrimEnd(TrimStart(s))

\* String.prototype.startsWith, and Prisma's { startsWith } filter
startsWith(s, p) == Len(p) <= Len(s) /\ SubSeq(s, 1, Len(p)) = p

\* The length of the longest run of characters of set cs that starts at s[i].
RECURSIVE RunLen(_, _, _)
RunLen(s, i, cs) ==
  IF i <= Len(s) /\ Ch(s, i) \in cs THEN 1 + RunLen(s, i + 1, cs) ELSE 0

\* The value of a string of decimal digits; 0 for the empty string.
RECURSIVE DecValue(_)
DecValue(ds) ==
  IF ds = "" THEN 0
  ELSE 10 * DecValue(SubSeq(ds, 1, Len(ds) - 1)) + DigitVal[Ch(ds, Len(ds))]

RECURSIVE HexValue(_)
HexValue(ds) ==
  IF ds = "" THEN 0
  ELSE 16 * HexValue(SubSeq(ds, 1, Len(ds) - 1)) + HexVal(Ch(ds, Len(ds)))

SetMax(S) == CHOOSE x \in S : \A y \in S : y <= x

\* ------------------------------------------------------- natural numbers

\* A natural number of any size is the sequence of its digits of radix 2^15,
\* the least significant first and the most significant not 0; <<>> is 0.
\* Sequences of digits are split in halves rather than walked, which keeps
\* the evaluation shallow for numbers of a thousand bits.
Radix == 2^15

Min(a, b) == IF a < b THEN a ELSE b

Max(a, b) == IF a < b THEN b ELSE a

\* The natural number of an integer n >= 0.
RECURSIVE NatOf(_)
NatOf(n) == IF n = 0 THEN <<>> ELSE <<n % Radix>> \o NatOf(n \div Radix)

Front(a) == SubSeq(a, 1, Len(a) - 1)

\* a without its leading zeros
Norm(a) ==
  SubSeq(a, 1, SetMax({0} \cup {j \in 1 .. Len(a) : a[j] # 0}))

\* The digit j of a, 0 above its length.
DigitAt(a, j) == IF j <= Len(a) THEN a[j] ELSE 0

\* The digits lo .. hi of a * c + carry, then the carry out of them, for c
\* and carry below Radix.
RECURSIVE MulRange(_, _, _, _, _)
RECURSIVE MulJoin(_, _, _, _, _)
MulRange(a, c, carry, lo, hi) ==
  IF lo = hi
  THEN <<(a[lo] * c + carry) % Radix, (a[lo] * c + carry) \div Radix>>
  ELSE MulJoin(a, c, MulRange(a, c, carry, lo, (lo + hi) \div 2),
               ((lo + hi) \div 2) + 1, hi)

MulJoin(a, c, L, lo, hi) == Front(L) \o MulRange(a, c, L[Len(L)], lo, hi)

\* a * c + carry
MulAdd(a, c, carry) ==
  IF a = <<>> THEN NatOf(carry) ELSE Norm(MulRange(a, c, carry, 1, Len(a)))

MulSmall(a, c) == MulAdd(a, c, 0)

\* The digits hi .. lo of a, after the remainder r of the digits above them,
\* divided by c < Radix: the digits of the quotient, the most significant
\* first, then the remainder.
RECURSIVE DivRange(_, _, _, _, _)
RECURSIVE DivJoin(_, _, _, _, _)
DivRange(a, c, r, lo, hi) ==
  IF lo = hi
  THEN <<(r * Radix + a[lo]) \div c, (r * Radix + a[lo]) % c>>
  ELSE DivJoin(a, c, DivRange(a, c, r, ((lo + hi) \div 2) + 1, hi),
               lo, (lo + hi) \div 2)

DivJoin(a, c, H, lo, hi) == Front(H) \o DivRange(a, c, H[Len(H)], lo, hi)

Reverse(a) == [j \in 1 .. Len(a) |-> a[Len(a) + 1 - j]]

QuotRem(D) == [q |-> Norm(Reverse(Front(D))), r |-> D[Len(D)]]

\* floor(a / c) and a mod c
DivMod(a, c) ==
  IF a = <<>> THEN [q |-> <<>>, r |-> 0]
  ELSE QuotRem(DivRange(a, c, 0, 1, Len(a)))

\* The digits lo .. hi of a + b + carry, then the carry out of them.
RECURSIVE AddRange(_, _, _, _, _)
RECURSIVE AddJoin(_, _, _, _, _)
AddRange(a, b, carry, lo, hi) ==
  IF lo = hi
  THEN <<(DigitAt(a, lo) + DigitAt(b, lo) + carry) % Radix,
         (DigitAt(a, lo) + DigitAt(b, lo) + carry) \div Radix>>
  ELSE AddJoin(a, b, AddRange(a, b, carry, lo, (lo + hi) \div 2),
               ((lo + hi) \div 2) + 1, hi)

AddJoin(a, b, L, lo, hi) == Front(L) \o AddRange(a, b, L[Len(L)], lo, hi)

Add(a, b) ==
  IF a = <<>> THEN b
  ELSE IF b = <<>> THEN a
  ELSE Norm(AddRange(a, b, 0, 1, Max(Len(a), Len(b))))

\* The magnitude of an integer of int4.
Magnitude(n) == IF n >= 0 THEN NatOf(n) ELSE Add(NatOf(-(n + 1)), <<1>>)

\* The digits lo .. hi of a - b - borrow, then the borrow out of them.
RECURSIVE SubRange(_, _, _, _, _)
RECURSIVE SubJoin(_, _, _, _, _)
SubRange(a, b, borrow, lo, hi) ==
  IF lo = hi
  THEN <<(a[lo] - DigitAt(b, lo) - borrow + Radix) % Radix,
         IF a[lo] - DigitAt(b, lo) - borrow < 0 THEN 1 ELSE 0>>
  ELSE SubJoin(a, b, SubRange(a, b, borrow, lo, (lo + hi) \div 2),
               ((lo + hi) \div 2) + 1, hi)

SubJoin(a, b, L, lo, hi) == Front(L) \o SubRange(a, b, L[Len(L)], lo, hi)

\* a - b, for a >= b
Sub(a, b) ==
  IF a = <<>> THEN <<>> ELSE Norm(Front(SubRange(a, b, 0, 1, Len(a))))

\* a < b
Less(a, b) ==
  \/ Len(a) < Len(b)
  \/ /\ Len(a) = Len(b)
     /\ \E j \in 1 .. Len(a) :
          a[j] < b[j] /\ \A h \in (j + 1) .. Len(a) : a[h] = b[h]

\* a * Radix^t
ShiftDigits(a, t) == IF a = <<>> THEN <<>> ELSE [j \in 1 .. t |-> 0] \o a

\* a * (the digits lo .. hi of b)
RECURSIVE MulDigits(_, _, _, _)
MulDigits(a, b, lo, hi) ==
  IF lo = hi THEN MulSmall(a, b[lo])
  ELSE Add(MulDigits(a, b, lo, (lo + hi) \div 2),
           ShiftDigits(MulDigits(a, b, ((lo + hi) \div 2) + 1, hi),
                       ((lo + hi) \div 2) + 1 - lo))

Mul(a, b) ==
  IF a = <<>> \/ b = <<>> THEN <<>> ELSE MulDigits(a, b, 1, Len(b))

\* The number of bits of an integer n >= 0, and of a natural number.
RECURSIVE Bits(_)
Bits(n) == IF n = 0 THEN 0 ELSE 1 + Bits(n \div 2)

BitLen(a) == IF a = <<>> THEN 0 ELSE 15 * (Len(a) - 1) + Bits(a[Len(a)])

\* a * 2^t
ShiftLeft(a, t) ==
  IF t = 0 THEN a ELSE ShiftDigits(MulSmall(a, 2^(t % 15)), t \div 15)

\* floor(a / 2^t), and sticky: a bit of a below 2^t is set
ShiftRight(a, t) ==
  IF t = 0 THEN [q |-> a, sticky |-> FALSE]
  ELSE IF t \div 15 >= Len(a) THEN [q |-> <<>>, sticky |-> a # <<>>]
  ELSE [q |-> DivMod(SubSeq(a, (t \div 15) + 1, Len(a)), 2^(t % 15)).q,
        sticky |->
          \/ \E j \in 1 .. (t \div 15) : a[j] # 0
          \/ DivMod(SubSeq(a, (t \div 15) + 1, Len(a)), 2^(t % 15)).r # 0]

\* The number of zero bits below the lowest set bit, of an integer n > 0 and
\* of a natural number a > 0.
RECURSIVE Zeros(_)
Zeros(n) == IF n % 2 = 1 THEN 0 ELSE 1 + Zeros(n \div 2)

LowDigit(a) == CHOOSE j \in 1 .. Len(a) : a[j] # 0 /\ \A h \in 1 .. (j - 1) : a[h] = 0

TrailingZeros(a) == 15 * (LowDigit(a) - 1) + Zeros(a[LowDigit(a)])

Odd(a) == a # <<>> /\ a[1] % 2 = 1

\* The natural number of a string of decimal digits, after acc.
RECURSIVE NatOfDigits(_, _)
NatOfDigits(ds, acc) ==
  IF ds = "" THEN acc
  ELSE IF Len(ds) >= 4
  THEN NatOfDigits(SubSeq(ds, 5, Len(ds)),
                   MulAdd(acc, 10000, DecValue(SubSeq(ds, 1, 4))))
  ELSE NatOfDigits(Tail(ds), MulAdd(acc, 10, DigitVal[Ch(ds, 1)]))

\* The last four decimal digits of a natural number, as a string.
FourDigits(n) ==
  ToString(n \div 1000) \o ToString((n \div 100) % 10)
    \o ToString((n \div 10) % 10) \o ToString(n % 10)

\* The decimal digits of a natural number; "" for 0.
RECURSIVE DigitsOfNat(_)
DigitsOfNat(a) ==
  IF a = <<>> THEN ""
  ELSE IF Len(a) = 1 /\ a[1] < 10000 THEN ToString(a[1])
  ELSE LET x == DivMod(a, 10000)
       IN  DigitsOfNat(x.q) \o FourDigits(x.r)

\* 10^k
RECURSIVE PowTen(_)
PowTenTwice(h, odd) == IF odd = 1 THEN MulSmall(Mul(h, h), 10) ELSE Mul(h, h)

PowTen(k) ==
  IF k <= 4 THEN NatOf(10^k) ELSE PowTenTwice(PowTen(k \div 2), k % 2)

\* a * 10^k
TimesTen(a, k) == IF k = 0 THEN a ELSE Mul(a, PowTen(k))

\* floor(a / 10^k), and sticky: this division or an earlier one (sticky)
\* leaves a remainder
RECURSIVE DivTen(_, _, _)
DivTenStep(x, sticky) == [q |-> x.q, sticky |-> sticky \/ x.r # 0]

DivTenAgain(x, k) == DivTen(x.q, k, x.sticky)

DivTen(a, k, sticky) ==
  IF k = 0 \/ a = <<>> THEN [q |-> a, sticky |-> sticky]
  ELSE IF k <= 4 THEN DivTenStep(DivMod(a, 10^k), sticky)
  ELSE DivTenAgain(DivTen(a, k \div 2, sticky), k - (k \div 2))

\* ------------------------------------------------------ IEEE-754 doubles

\* A JavaScript number: NaN, Infinity or -Infinity, or the finite double
\* (-1)^neg * m * 2^e with m an odd natural number of at most 53 bits and
\* -1074 <= e, m * 2^e < 2^1024; 0 has m = <<>>, e = 0 (0 and -0, equal under
\* === and alike in JSON, are one value).
FloatNaN == [k |-> "NaN", neg |-> FALSE, m |-> <<>>, e |-> 0]

Infinity(neg) == [k |-> "Infinity", neg |-> neg, m |-> <<>>, e |-> 0]

Zero == [k |-> "finite", neg |-> FALSE, m |-> <<>>, e |-> 0]

\* The double (-1)^neg * m * 2^e for a number that is one, m of any parity;
\* Infinity from 2^1024 on.
Finite(neg, m, e) ==
  IF m = <<>> THEN Zero
  ELSE IF BitLen(m) + e > 1024 THEN Infinity(neg)
  ELSE IF Odd(m) THEN [k |-> "finite", neg |-> neg, m |-> m, e |-> e]
  ELSE LET t == TrailingZeros(m)
       IN  [k |-> "finite", neg |-> neg, m |-> ShiftRight(m, t).q, e |-> e + t]

\* a / 2^t rounded to the nearest integer, a tie to the even one; the value
\* rounded is above a / 2^t by less than 1 / 2^t when sticky.
RoundShift(a, t, sticky) ==
  LET half == ShiftRight(a, t - 1)
      q    == ShiftRight(a, t).q
  IN  IF Odd(half.q) /\ (sticky \/ half.sticky \/ Odd(q))
      THEN Add(q, <<1>>)
      ELSE q

\* The double nearest to (-1)^neg * (a + f) * 2^e, a tie to the even one; f
\* is 0, or when sticky a fraction between 0 and 1 (a then has 55 bits or
\* more).
Round(neg, a, e, sticky) ==
  LET t == Max(BitLen(a) - 53, -1074 - e)
  IN  IF t <= 0 THEN Finite(neg, a, e)
      ELSE Finite(neg, RoundShift(a, t, sticky), e + t)

One == Finite(FALSE, <<1>>, 0)

\* The double of an integer of int4.
Double(n) == Finite(n < 0, Magnitude(n), 0)

\* The double n / 2^t, for an integer n of int4.
Dyadic(n, t) == Finite(n < 0, Magnitude(n), -t)

\* The position above the highest bit of a finite double that is not 0.
Top(x) == BitLen(x.m) + x.e

\* The sum of two finite doubles that are not 0 and whose highest bits are
\* at most 64 positions apart.
PlusAligned(x, y, e) ==
  LET a == ShiftLeft(x.m, x.e - e)
      b == ShiftLeft(y.m, y.e - e)
  IN  IF x.neg = y.neg THEN Round(x.neg, Add(a, b), e, FALSE)
      ELSE IF Less(a, b) THEN Round(y.neg, Sub(b, a), e, FALSE)
      ELSE Round(x.neg, Sub(a, b), e, FALSE)

\* x + y; a number more than 2^64 times smaller than the other is below a
\* quarter of the step between doubles there and leaves the other as it is.
Plus(x, y) ==
  IF x.k = "NaN" \/ y.k = "NaN" THEN FloatNaN
  ELSE IF x.k = "Infinity"
  THEN IF y.k = "Infinity" /\ y.neg # x.neg THEN FloatNaN ELSE x
  ELSE IF y.k = "Infinity" THEN y
  ELSE IF x.m = <<>> THEN y
  ELSE IF y.m = <<>> THEN x
  ELSE IF Top(x) - Top(y) > 64 THEN x
  ELSE IF Top(y) - Top(x) > 64 THEN y
  ELSE PlusAligned(x, y, Min(x.e, y.e))

\* x * y
Times(x, y) ==
  IF x.k = "NaN" \/ y.k = "NaN" THEN FloatNaN
  ELSE IF x.k = "Infinity" \/ y.k = "Infinity"
  THEN IF x = Zero \/ y = Zero THEN FloatNaN ELSE Infinity(x.neg # y.neg)
  ELSE Round(x.neg # y.neg, Mul(x.m, y.m), x.e + y.e, FALSE)

\* x < y, for two numbers that are not NaN
LessThan(x, y) ==
  IF x = y THEN FALSE
  ELSE IF x.k = "Infinity" THEN x.neg
  ELSE IF y.k = "Infinity" THEN ~y.neg
  ELSE IF x.m = <<>> THEN ~y.neg
  ELSE IF y.m = <<>> THEN x.neg
  ELSE IF x.neg # y.neg THEN x.neg
  ELSE IF Top(x) # Top(y) THEN (Top(x) < Top(y)) # x.neg
  ELSE IF x.neg
  THEN Less(ShiftLeft(y.m, y.e - Min(x.e, y.e)),
            ShiftLeft(x.m, x.e - Min(x.e, y.e)))
  ELSE Less(ShiftLeft(x.m, x.e - Min(x.e, y.e)),
            ShiftLeft(y.m, y.e - Min(x.e, y.e)))

\* The double nearest to (-1)^neg * (d * 2^s / 10^k) for s a multiple of 15
\* that gives the quotient 55 bits or more.
Quotient(neg, d, k, s) ==
  LET x == DivTen(ShiftLeft(d, s), k, FALSE)
  IN  Round(neg, x.q, -s, x.sticky)

\* The double nearest to the decimal (-1)^neg * d * 10^p: Infinity from
\* 2^1024 on, 0 below 2^-1080.
Decimal(neg, d, p) ==
  IF d = <<>> THEN Zero
  ELSE IF p >= 0
  THEN IF BitLen(d) - 1 + 3 * p >= 1024 THEN Infinity(neg)
       ELSE Round(neg, TimesTen(d, p), 0, FALSE)
  ELSE IF BitLen(d) + 3 * p < -1080 THEN Zero
  ELSE Quotient(neg, d, -p,
                15 * Max(0, ((70 - 4 * p - BitLen(d)) \div 15)))

\* A non-empty string of digits without its leading zeros.
Significant(ds) ==
  LET z == RunLen(ds, 1, {"0"})
  IN  IF z = Len(ds) THEN "0" ELSE SubSeq(ds, z + 1, Len(ds))

\* a < b, for two such numbers of the same length (of radix 10 or 16)
RECURSIVE DigitsLess(_, _)
DigitsLess(a, b) ==
  IF a = "" THEN FALSE
  ELSE IF Ch(a, 1) # Ch(b, 1) THEN HexVal(Ch(a, 1)) < HexVal(Ch(b, 1))
  ELSE DigitsLess(Tail(a), Tail(b))

NumLess(a, b) == Len(a) < Len(b) \/ (Len(a) = Len(b) /\ DigitsLess(a, b))

\* The greatest value of a column of type INTEGER (int4), and its digits in
\* radix 10 and 16.
Int4Max == 2147483647

Int4MaxDigits == "2147483647"

Int4MaxHexDigits == "7fffffff"

\* The digits, of radix 10 or 16, denote a number greater than bound, given
\* by its digits in the same radix and in lower case.
Exceeds(ds, bound) == NumLess(bound, Significant(Lower(ds)))

\* The magnitude ds with the sign neg is outside -Int4Max - 1 .. Int4Max.
BeyondInt4(ds, neg, hex) ==
  IF hex
  THEN /\ Exceeds(ds, Int4MaxHexDigits)
       /\ ~(neg /\ Significant(Lower(ds)) = "80000000")
  ELSE /\ Exceeds(ds, Int4MaxDigits)
       /\ ~(neg /\ Significant(ds) = "2147483648")

\* --------------------------------------------------- JavaScript coercions

\* A result of parseInt, or of a sum of such results: NaN, an integer v of
\* int4, or (big) a number outside the range of int4, which no column of
\* type INTEGER takes: the double d.
NaN == [nan |-> TRUE, big |-> FALSE, v |-> 0, d |-> FloatNaN]

Num(v) == [nan |-> FALSE, big |-> FALSE, v |-> v, d |-> Zero]

Big(d) == [nan |-> FALSE, big |-> TRUE, v |-> 0, d |-> d]

\* The number itself: an integer of int4 as it is, any other as its double.
ValueOf(x) == IF x.nan \/ x.big THEN x.d ELSE x.v

\* The number as an operand of + and *: its double.
NumberOf(x) == IF x.nan \/ x.big THEN x.d ELSE Double(x.v)

\* The integer below 2^31 of the digits a.
SmallInt(a) ==
  DigitAt(a, 1) + Radix * DigitAt(a, 2) + Radix * Radix * DigitAt(a, 3)

\* The double d is an integer of int4.
IsInt4(d) ==
  /\ d.k = "finite"
  /\ \/ d.m = <<>>
     \/ /\ d.e >= 0
        /\ Top(d) <= 31 \/ (d.neg /\ d.m = <<1>> /\ d.e = 31)

\* The double d as a result of a sum.
OfDouble(d) ==
  IF ~IsInt4(d) THEN Big(d)
  ELSE IF d.m = <<>> THEN Num(0)
  ELSE IF d.e = 31 THEN Num(-Int4Max - 1)
  ELSE Num((IF d.neg THEN -1 ELSE 1) * SmallInt(ShiftLeft(d.m, d.e)))

\* -x
Negated(x) ==
  IF x.k = "NaN" \/ x = Zero THEN x ELSE [x EXCEPT !.neg = ~@]

\* The natural number of a string of hexadecimal digits, after acc.
RECURSIVE NatOfHexDigits(_, _)
NatOfHexDigits(ds, acc) ==
  IF ds = "" THEN acc
  ELSE NatOfHexDigits(Tail(ds), MulAdd(acc, 16, HexVal(Ch(ds, 1))))

\* parseInt(s) without a radix: leading white space, a sign, a 0x prefix,
\* then the longest run of digits of the radix; NaN when there is none.
\* (Each step is an operator of its own, handing on what it has read.)
ParseIntValue(ds, neg, hex) ==
  IF ds = "" THEN NaN
  ELSE IF BeyondInt4(ds, neg, hex)
  THEN Big(Round(neg,
                 IF hex THEN NatOfHexDigits(ds, <<>>)
                 ELSE NatOfDigits(ds, <<>>),
                 0, FALSE))
  ELSE IF neg /\ Exceeds(ds, IF hex THEN Int4MaxHexDigits ELSE Int4MaxDigits)
       THEN Num(-Int4Max - 1)
  ELSE Num((IF neg THEN -1 ELSE 1) * (IF hex THEN HexValue(ds) ELSE DecValue(ds)))

ParseIntDigits(w, neg, hex) ==
  ParseIntValue(
    SubSeq(w, 1, RunLen(w, 1, IF hex THEN Digits \cup HexLetters ELSE Digits)),
    neg, hex)

ParseIntRadix(u, neg) ==
  IF Len(u) >= 2 /\ SubSeq(u, 1, 2) \in {"0x", "0X"}
  THEN ParseIntDigits(SubSeq(u, 3, Len(u)), neg, TRUE)
  ELSE ParseIntDigits(u, neg, FALSE)

ParseIntSign(t) ==
  IF t # "" /\ Ch(t, 1) \in {"-", "+"}
  THEN ParseIntRadix(Tail(t), Ch(t, 1) = "-")
  ELSE ParseIntRadix(t, FALSE)

parseInt(s) == ParseIntSign(TrimStart(s))

\* parseFloat(s): leading white space, a sign, then Infinity or digits with
\* an optional fraction and an optional exponent; FloatNaN when neither starts the
\* number.  The result is the double nearest to the decimal read.
\* mant is the digits of the integer and fraction parts, kf the number of
\* fraction digits, ex the exponent.
ParseFloatValue(neg, mant, kf, ex) ==
  Decimal(neg, NatOfDigits(mant, <<>>), ex - kf)

\* The value of the digits of an exponent, 999999 for one of more digits
\* than six (every decimal read is then 0 or infinite).
ExponentValue(ds) ==
  IF Len(ds) - RunLen(ds, 1, {"0"}) > 6 THEN 999999 ELSE DecValue(ds)

ParseFloatExpDigits(u, neg, mant, kf, eAt, negE) ==
  ParseFloatValue(neg, mant, kf,
    (IF negE THEN -1 ELSE 1)
      * ExponentValue(SubSeq(u, eAt, eAt + RunLen(u, eAt, Digits) - 1)))

\* mEnd: the index of the last character of the mantissa
ParseFloatExp(u, neg, mant, kf, mEnd) ==
  IF mEnd < Len(u) /\ Ch(u, mEnd + 1) \in {"e", "E"}
  THEN IF mEnd + 1 < Len(u) /\ Ch(u, mEnd + 2) \in {"-", "+"}
       THEN ParseFloatExpDigits(u, neg, mant, kf, mEnd + 3,
                                Ch(u, mEnd + 2) = "-")
       ELSE ParseFloatExpDigits(u, neg, mant, kf, mEnd + 2, FALSE)
  ELSE ParseFloatValue(neg, mant, kf, 0)

\* ki, kf: the numbers of digits before and after the point
ParseFloatMantissa(u, neg, ki, kf, dot) ==
  IF ki = 0 /\ kf = 0
  THEN IF startsWith(u, "Infinity") THEN Infinity(neg) ELSE FloatNaN
  ELSE ParseFloatExp(u, neg,
         SubSeq(u, 1, ki) \o SubSeq(u, ki + 2, ki + 1 + kf),
         kf, IF dot THEN ki + 1 + kf ELSE ki)

ParseFloatFraction(u, neg, ki) ==
  IF ki < Len(u) /\ Ch(u, ki + 1) = "."
  THEN ParseFloatMantissa(u, neg, ki, RunLen(u, ki + 2, Digits), TRUE)
  ELSE ParseFloatMantissa(u, neg, ki, 0, FALSE)

ParseFloatSign(t) ==
  IF t # "" /\ Ch(t, 1) \in {"-", "+"}
  THEN ParseFloatFraction(Tail(t), Ch(t, 1) = "-",
                          RunLen(Tail(t), 1, Digits))
  ELSE ParseFloatFraction(t, FALSE, RunLen(t, 1, Digits))

parseFloat(s) == ParseFloatSign(TrimStart(s))

\* x || 0 for a parseInt result: 0 for NaN, any other number as it is (an
\* integer outside int4 is kept)
IntOrZero(x) == IF x.nan THEN Num(0) ELSE x

\* x || 0 for a parseInt result, as the number itself
OrZero(x) == ValueOf(IntOrZero(x))

\* x || 0 for a parseFloat result
OrZeroF(x) == IF x.k = "NaN" THEN Zero ELSE x

\* ------------------------------------------------------------------ cells

\* What XLSX.utils.sheet_to_json(..., {header: 1}) gives for a cell: a
\* number, a string, or undefined for an empty cell.  s is String(cell).
Undefined == [t |-> "undefined", s |-> "undefined"]

Str(s) == [t |-> "string", s |-> s]

Number(s) == [t |-> "number", s |-> s]

\* String(cell)
String(c) == c.s

\* !cell is false: the cell is truthy
Truthy(c) ==
  CASE c.t = "undefined" -> FALSE
    [] c.t = "string" -> c.s # ""
    [] c.t = "number" -> c.s \notin {"0", "-0", "NaN"}

\* ----------------------------------------------------- the uploaded sheet

\* headers = rows[0].map(h => String(h).trim())
headersOf(sheet) == [i \in 1 .. Len(sheet[1]) |-> trim(String(sheet[1][i]))]

\* rowData[key] after headers.forEach((header, index) => rowData[header] =
\* row[index]): the cell under the last header equal to key, undefined when
\* no header equals key or the row is shorter than the header row.
CellAt(row, at) ==
  IF at = {} THEN Undefined
  ELSE IF SetMax(at) > Len(row) THEN Undefined
  ELSE row[SetMax(at)]

Cell(headers, row, key) ==
  CellAt(row, {i \in 1 .. Len(headers) : headers[i] = key})

\* -------------------------------------------------------- detectMaxDay

\* The four dayPatterns, /<label> \(Day (\d+)\)/i, by their literal prefix in
\* canonical (lower) case.
dayPatterns ==
  <<"procurement qty (day ", "procurement price (day ",
    "sales qty (day ", "sales price (day ">>

\* A match of the pattern at position i that tells upper case from lower.
MatchAtCaseSensitive(header, pattern, i) ==
  LET j == i + Len(pattern)
      k == RunLen(header, j, Digits)
  IN  /\ j - 1 <= Len(header)
      /\ SubSeq(header, i, j - 1) = pattern
      /\ k > 0
      /\ j + k <= Len(header)
      /\ Ch(header, j + k) = ")"

\* The pattern matches header at position i: the literal, one or more digits,
\* a closing parenthesis.
MatchAt(header, pattern, i) ==
  LET j == i + Len(pattern)
      k == RunLen(header, j, Digits)
  IN  /\ j - 1 <= Len(header)
      /\ Lower(SubSeq(header, i, j - 1)) = pattern
      /\ k > 0
      /\ j + k <= Len(header)
      /\ Ch(header, j + k) = ")"

\* header.match(pattern): match[1] of the leftmost match, "" when there is none
MatchDay(header, pattern) ==
  LET at == {i \in 1 .. Len(header) : MatchAt(header, pattern, i)}
  IN  IF at = {} THEN ""
      ELSE LET i == CHOOSE x \in at : \A y \in at : x <= y
               j == i + Len(pattern)
           IN  SubSeq(header, j, j + RunLen(header, j, Digits) - 1)

\* dayPatterns.forEach over one header, from the running maxDay
RECURSIVE ScanPatterns(_, _, _)
ScanPatterns(header, p, maxDay) ==
  IF p > Len(dayPatterns) THEN maxDay
  ELSE LET m   == MatchDay(header, dayPatterns[p])
           day == DecValue(m)
       IN  ScanPatterns(header, p + 1,
                        IF m # "" /\ day > maxDay THEN day ELSE maxDay)

RECURSIVE ScanHeaders(_, _, _)
ScanHeaders(headers, h, maxDay) ==
  IF h > Len(headers) THEN maxDay
  ELSE ScanHeaders(headers, h + 1, ScanPatterns(headers[h], 1, maxDay))

detectMaxDay(headers) == ScanHeaders(headers, 1, 0)

\* ---------------------------------------------------------- rollforward

dayKey(label, day) == label \o " (Day " \o ToString(day) \o ")"

\* The record pushed for day 0.
DayZero(openingInventory) ==
  [day |-> 0, inventory |-> openingInventory,
   procurementQuantity |-> 0, procurementPrice |-> Zero,
   procurementAmount |-> Zero,
   salesQuantity |-> 0, salesPrice |-> Zero, salesAmount |-> Zero]

\* currentInventory + procurementQty - salesQty is a sum of doubles, exact
\* for operands of int4.  For such operands it is worked out by quarters, so
\* that no step of it leaves the integers of int4: the sum is
\* 4 * Quarters + Rest.
Quarters(currentInventory, procurementQty, salesQty) ==
  (currentInventory \div 4) + (procurementQty \div 4) - (salesQty \div 4)

Rest(currentInventory, procurementQty, salesQty) ==
  (currentInventory % 4) + (procurementQty % 4) - (salesQty % 4)

\* The sum 4 * q + rest is of int4: a column of type INTEGER takes it.
FitsInt4(q, rest) ==
  /\ q - (Int4Max \div 4) <= ((3 - rest) \div 4)
  /\ q + (Int4Max \div 4) + 1 >= 0 - (rest \div 4)

\* The sum 4 * q + rest, for a sum of int4.
FromQuarters(q, rest) ==
  IF q > 0 THEN 4 * (q - 1) + (rest + 4) ELSE 4 * (q + 2) + (rest - 8)

\* The three operands are of int4 and so is their sum.
SumFits(currentInventory, procurementQty, salesQty) ==
  /\ ~currentInventory.big /\ ~procurementQty.big /\ ~salesQty.big
  /\ FitsInt4(Quarters(currentInventory.v, procurementQty.v, salesQty.v),
              Rest(currentInventory.v, procurementQty.v, salesQty.v))

\* const closingInventory = currentInventory + procurementQty - salesQty,
\* the two operations rounded in turn when an operand or the sum is outside
\* int4
closingInventory(currentInventory, procurementQty, salesQty) ==
  IF SumFits(currentInventory, procurementQty, salesQty)
  THEN Num(FromQuarters(
             Quarters(currentInventory.v, procurementQty.v, salesQty.v),
             Rest(currentInventory.v, procurementQty.v, salesQty.v)))
  ELSE OfDouble(Plus(Plus(NumberOf(currentInventory),
                          NumberOf(procurementQty)),
                     Negated(NumberOf(salesQty))))

\* A pushed record whose inventory stops at zero.
PushedRecordClamped(day, currentInventory, procurementQty, procurementPrice, salesQty, salesPrice) ==
  [day |-> day,
   inventory |->
     IF /\ ~closingInventory(currentInventory, procurementQty, salesQty).big
        /\ closingInventory(currentInventory, procurementQty, salesQty).v < 0
     THEN 0
     ELSE ValueOf(closingInventory(currentInventory, procurementQty, salesQty)),
   procurementQuantity |-> ValueOf(procurementQty),
   procurementPrice |-> procurementPrice,
   procurementAmount |-> Times(NumberOf(procurementQty), procurementPrice),
   salesQuantity |-> ValueOf(salesQty),
   salesPrice |-> salesPrice,
   salesAmount |-> Times(NumberOf(salesQty), salesPrice)]

\* A pushed record whose sales amount is taken at the procurement price.
PushedRecordOnePrice(day, currentInventory, procurementQty, procurementPrice, salesQty, salesPrice) ==
  [day |-> day,
   inventory |->
     ValueOf(closingInventory(currentInventory, procurementQty, salesQty)),
   procurementQuantity |-> ValueOf(procurementQty),
   procurementPrice |-> procurementPrice,
   procurementAmount |-> Times(NumberOf(procurementQty), procurementPrice),
   salesQuantity |-> ValueOf(salesQty),
   salesPrice |-> salesPrice,
   salesAmount |-> Times(NumberOf(salesQty), procurementPrice)]

\* The record pushed by one turn of the day loop, from the four coerced
\* values of the day.
PushedRecord(day, currentInventory, procurementQty, procurementPrice, salesQty, salesPrice) ==
  [day |-> day,
   inventory |->
     ValueOf(closingInventory(currentInventory, procurementQty, salesQty)),
   procurementQuantity |-> ValueOf(procurementQty),
   procurementPrice |-> procurementPrice,
   procurementAmount |-> Times(NumberOf(procurementQty), procurementPrice),
   salesQuantity |-> ValueOf(salesQty),
   salesPrice |-> salesPrice,
   salesAmount |-> Times(NumberOf(salesQty), salesPrice)]

\* parseInt(String(row[key]))
IntCell(headers, row, key) == parseInt(String(Cell(headers, row, key)))

\* One turn of the day loop: the coercion of the day's four cells.
DayRecord(headers, row, day, currentInventory) ==
  PushedRecord(day, currentInventory,
    IntOrZero(IntCell(headers, row, dayKey("Procurement Qty", day))),
    OrZeroF(parseFloat(String(Cell(headers, row, dayKey("Procurement Price", day))))),
    IntOrZero(IntCell(headers, row, dayKey("Sales Qty", day))),
    OrZeroF(parseFloat(String(Cell(headers, row, dayKey("Sales Price", day))))))

\* currentInventory = closingInventory, at the end of the turn of the day
NextInventory(headers, row, day, currentInventory) ==
  closingInventory(
    currentInventory,
    IntOrZero(IntCell(headers, row, dayKey("Procurement Qty", day))),
    IntOrZero(IntCell(headers, row, dayKey("Sales Qty", day))))

\* A day loop that stops one day early: day < maxDay.
RECURSIVE DayLoopStopsEarly(_, _, _, _, _, _)
DayLoopStopsEarly(headers, row, day, maxDay, recs, currentInventory) ==
  IF day >= maxDay THEN recs
  ELSE DayLoopStopsEarly(
         headers, row, day + 1, maxDay,
         Append(recs, DayRecord(headers, row, day, currentInventory)),
         NextInventory(headers, row, day, currentInventory))

\* for (let day = 1; day <= maxDay; day++): the list after the turns from
\* day on, recs being the list so far and currentInventory the variable of
\* that name.
RECURSIVE DayLoop(_, _, _, _, _, _)
DayLoop(headers, row, day, maxDay, recs, currentInventory) ==
  IF day > maxDay THEN recs
  ELSE DayLoop(headers, row, day + 1, maxDay,
               Append(recs, DayRecord(headers, row, day, currentInventory)),
               NextInventory(headers, row, day, currentInventory))

dailyRecordsToCreate(headers, row, maxDay) ==
  DayLoop(headers, row, 1, maxDay,
          <<DayZero(OrZero(IntCell(headers, row, "Opening Inventory")))>>,
          IntOrZero(IntCell(headers, row, "Opening Inventory")))

\* The integers of the records of the days from day on are all of int4:
\* the two quantities of each day and the inventory after it.
RECURSIVE DaysFit(_, _, _, _, _)
DaysFit(headers, row, day, maxDay, currentInventory) ==
  IF day > maxDay THEN TRUE
  ELSE /\ ~IntCell(headers, row, dayKey("Procurement Qty", day)).big
       /\ ~IntCell(headers, row, dayKey("Sales Qty", day)).big
       /\ ~NextInventory(headers, row, day, currentInventory).big
       /\ DaysFit(headers, row, day + 1, maxDay,
                  NextInventory(headers, row, day, currentInventory))

\* Every integer of dailyRecordsToCreate is of int4, the type of the columns
\* inventory, procurementQuantity and salesQuantity: tx.product.create takes
\* the records.
RecordsFit(headers, row, maxDay) ==
  /\ ~IntCell(headers, row, "Opening Inventory").big
  /\ DaysFit(headers, row, 1, maxDay,
             IntOrZero(IntCell(headers, row, "Opening Inventory")))

\* parseFloat(String(row[key])) || 0
FloatCell(headers, row, key) ==
  OrZeroF(parseFloat(String(Cell(headers, row, key))))

\* Every price and amount of dailyRecordsToCreate is a finite number.
AllFinite(headers, row, maxDay) ==
  \A day \in 1 .. maxDay :
    /\ FloatCell(headers, row, dayKey("Procurement Price", day)).k = "finite"
    /\ Times(NumberOf(IntOrZero(IntCell(headers, row,
                                        dayKey("Procurement Qty", day)))),
             FloatCell(headers, row, dayKey("Procurement Price", day))).k
         = "finite"
    /\ FloatCell(headers, row, dayKey("Sales Price", day)).k = "finite"
    /\ Times(NumberOf(IntOrZero(IntCell(headers, row,
                                        dayKey("Sales Qty", day)))),
             FloatCell(headers, row, dayKey("Sales Price", day))).k
         = "finite"

\* -------------------------------------------- generateUniqueProductName

\* The numbers of generateUniqueProductName are doubles: parseInt gives the
\* double nearest to the digits of a name, the sum maxNumber + 1 is rounded
\* and the template literal writes the sum as Number::toString does.

\* ------------------------------------------------- Number::toString(x)

\* ds without its trailing zeros
StripZeros(ds) ==
  SubSeq(ds, 1, SetMax({0} \cup {j \in 1 .. Len(ds) : Ch(ds, j) # "0"}))

RECURSIVE Zeroes(_)
Zeroes(j) == IF j = 0 THEN "" ELSE "0" \o Zeroes(j - 1)

\* The text of the decimal with the digits ds and j zeros after them: as it
\* is up to 21 digits, then with an exponent after its first digit.
DecimalText(ds, j) ==
  IF Len(ds) + j <= 21 THEN ds \o Zeroes(j)
  ELSE IF Len(StripZeros(ds)) = 1
  THEN SubSeq(ds, 1, 1) \o "e+" \o ToString(Len(ds) + j - 1)
  ELSE SubSeq(ds, 1, 1) \o "." \o SubSeq(StripZeros(ds), 2, Len(StripZeros(ds)))
         \o "e+" \o ToString(Len(ds) + j - 1)

\* Of the two decimals lo * 10^j <= N < (lo + 1) * 10^j, those that read back
\* as the double x: the one nearer to N of two, the even one of two as near.
NearestText(x, N, lo, j) ==
  IF Decimal(FALSE, lo, j) # x
  THEN IF Decimal(FALSE, Add(lo, <<1>>), j) # x THEN ""
       ELSE DecimalText(DigitsOfNat(Add(lo, <<1>>)), j)
  ELSE IF Decimal(FALSE, Add(lo, <<1>>), j) # x
  THEN DecimalText(DigitsOfNat(lo), j)
  ELSE IF \/ Less(MulSmall(Sub(N, TimesTen(lo, j)), 2), PowTen(j))
          \/ /\ MulSmall(Sub(N, TimesTen(lo, j)), 2) = PowTen(j)
             /\ ~Odd(lo)
  THEN DecimalText(DigitsOfNat(lo), j)
  ELSE DecimalText(DigitsOfNat(Add(lo, <<1>>)), j)

\* The decimal of the fewest digits, k or more, that reads back as the double
\* x = N, a natural number of n digits.
RECURSIVE ShortestText(_, _, _, _)
ShortestText(x, N, n, k) ==
  IF k >= n THEN DigitsOfNat(N)
  ELSE LET text == NearestText(x, N, DivTen(N, n - k, FALSE).q, n - k)
       IN  IF text # "" THEN text ELSE ShortestText(x, N, n, k + 1)

\* String(x) for a double x >= 0 that is an integer or Infinity: every
\* integer up to 2^53 is a double and is written out.
NumberToString(x) ==
  IF x.k = "Infinity" THEN "Infinity"
  ELSE IF x.m = <<>> THEN "0"
  ELSE IF Top(x) <= 53 \/ (x.m = <<1>> /\ x.e = 53)
  THEN DigitsOfNat(ShiftLeft(x.m, x.e))
  ELSE LET N == ShiftLeft(x.m, x.e)
       IN  ShortestText(x, N, Len(DigitsOfNat(N)), 1)

\* parseInt(digits, 10) for a non-empty string of digits: the double nearest
\* to the number they denote
parseInt10(ds) == Decimal(FALSE, NatOfDigits(ds, <<>>), 0)

\* The least of the numbers.
MathMin(numbers) == CHOOSE x \in numbers : \A y \in numbers : ~LessThan(y, x)

\* Math.max(...numbers)
MathMax(numbers) == CHOOSE x \in numbers : \A y \in numbers : ~LessThan(x, y)

\* maxNumber + 1
PlusOne(a) == Plus(a, One)

\* match[1] of name.match(/^<baseName escaped>\(([0-9]+)\)$/), "" for no match
SuffixDigits(name, baseName) ==
  LET from == Len(baseName) + 2
      ds   == SubSeq(name, from, Len(name) - 1)
  IN  IF /\ startsWith(name, baseName \o "(")
         /\ Len(name) > from
         /\ Ch(name, Len(name)) = ")"
         /\ RunLen(ds, 1, Digits) = Len(ds)
      THEN ds ELSE ""

\* A findFirst that looks at the products of every dataset, not of dataSetId
\* alone.
existingProductAnyDataSet(products, baseName, dataSetId) ==
  {p \in products : p.name = baseName}

\* const existingProduct = await tx.product.findFirst({ where: { name:
\* baseName, dataSetId } }): the rows the query matches ({}: null); products
\* are the Product rows the transaction client sees at the time of the query.
existingProduct(products, baseName, dataSetId) ==
  {p \in products : p.name = baseName /\ p.dataSetId = dataSetId}

\* const similarProducts = await tx.product.findMany({ where: { dataSetId,
\* OR: [{ name: baseName }, { name: { startsWith: `${baseName}(` } }] } })
similarProducts(products, baseName, dataSetId) ==
  {p \in products :
     /\ p.dataSetId = dataSetId
     /\ (p.name = baseName \/ startsWith(p.name, baseName \o "("))}

\* A name numbered by the count of the similar products.
numberedNameByCount(similar, baseName) ==
  baseName \o "(" \o ToString(Cardinality(similar) + 1) \o ")"

\* What generateUniqueProductName returns once findMany has answered with the
\* rows similar: `${baseName}(${nextNumber})`.
numberedName(similar, baseName) ==
  LET numbers ==
        {IF p.name = baseName THEN One
         ELSE parseInt10(SuffixDigits(p.name, baseName)) :
           p \in {q \in similar :
                    q.name = baseName \/ SuffixDigits(q.name, baseName) # ""}}
      maxNumber  == IF numbers # {} THEN MathMax(numbers) ELSE Zero
      nextNumber == PlusOne(maxNumber)
  IN  baseName \o "(" \o NumberToString(nextNumber) \o ")"

\* generateUniqueProductName when both of its queries read the rows products.
generateUniqueProductName(products, baseName, dataSetId) ==
  IF existingProduct(products, baseName, dataSetId) = {} THEN baseName
  ELSE numberedName(similarProducts(products, baseName, dataSetId), baseName)

\* ------------------ Math.random().toString(36).substring(2, 8)

\* The digits of radix 36.
RadixChars == "0123456789abcdefghijklmnopqrstuvwxyz"

\* static_cast<int>(x), for a double 0 <= x < 36
IntegerPart(x) ==
  IF x.m = <<>> THEN 0
  ELSE IF Top(x) <= 0 THEN 0
  ELSE IF x.e >= 0 THEN ShiftLeft(x.m, x.e)[1]
  ELSE ShiftRight(x.m, -x.e).q[1]

\* The digit that the character stands for.
RadixDigit(c) == CHOOSE d \in 0 .. 35 : Ch(RadixChars, d + 1) = c

\* The digits of the fraction rounded up: the last digit below z is raised
\* and the digits after it go; "" when the carry reaches the integer part.
RECURSIVE RoundedUp(_)
RoundedUp(buffer) ==
  IF buffer = "" THEN ""
  ELSE IF RadixDigit(Ch(buffer, Len(buffer))) + 1 < 36
  THEN SubSeq(buffer, 1, Len(buffer) - 1)
         \o Ch(RadixChars, RadixDigit(Ch(buffer, Len(buffer))) + 2)
  ELSE RoundedUp(SubSeq(buffer, 1, Len(buffer) - 1))

\* One turn of the do-while of DoubleToRadixCString and those after it: the
\* digits of the fraction, which come after buffer.
RECURSIVE FractionDigits(_, _, _)
FractionDigits(fraction, delta, buffer) ==
  LET scaled == Times(fraction, Double(36))
      width  == Times(delta, Double(36))
      digit  == IntegerPart(scaled)
      rest   == Plus(scaled, Double(-digit))
      digits == buffer \o Ch(RadixChars, digit + 1)
  IN  IF /\ \/ LessThan(Dyadic(1, 1), rest)
            \/ (rest = Dyadic(1, 1) /\ digit % 2 = 1)
         /\ LessThan(One, Plus(rest, width))
      THEN RoundedUp(digits)
      ELSE IF LessThan(rest, width) THEN digits
      ELSE FractionDigits(rest, width, digits)

\* value.toString(36).substring(2, 8) for a double 0 <= value < 1: what
\* follows "0." in the text, six characters of it at most; delta is half the
\* distance to the next double, the least positive double at least.
RandomSuffixOf(value) ==
  IF value.m = <<>> THEN ""
  ELSE LET delta  == Finite(FALSE, <<1>>, Max(Top(value) - 54, -1074))
           digits == IF LessThan(value, delta) THEN ""
                     ELSE FractionDigits(value, delta, "")
       IN  SubSeq(digits, 1, Min(6, Len(digits)))

\* ------------------------------------------------------------- the state

VARIABLES
  files,       \* files[r]: the file of upload request r (NoFile: none sent)
  req,         \* req[r]: the progress and the response of upload request r
  DataSet,     \* the committed rows of table DataSet
  Product,     \* the committed rows of table Product
  DailyData,   \* the committed rows of table DailyData
  dataSetSeq,  \* the last value drawn from the sequence of DataSet.id
  now,         \* Date.now()
  del,         \* del[k]: the progress and the response of DELETE request k
  page,        \* the state of the dashboard page of one browser
  put,         \* put[k]: the progress and the response of PUT request k
  get,         \* the last response of GET /api/data/{dataSetId}
  ai,          \* the last response of POST /api/ai/analyze
  http,        \* http[k]: what the middleware did with DELETE request k
  analyzeHttp, \* what the middleware did with the last POST /api/ai/analyze
  User,        \* the rows of table User
  reg,         \* reg[k]: the progress and the response of registration k
  floatingPanels,  \* the panels of DashboardChart, by day
  inflight     \* the chart-data requests of the page that are in flight

\* The requests of the other endpoints.
api == <<put, get, ai, http, analyzeHttp>>

\* The users and their registrations.
auth == <<User, reg>>

vars == <<files, req, DataSet, Product, DailyData, dataSetSeq, now, del, page, api, auth, floatingPanels, inflight>>

NoFile == [name |-> "", sheet |-> <<>>, none |-> TRUE]

Workbook(name, sheet) == [name |-> name, sheet |-> sheet, none |-> FALSE]

\* What Math.random() may give: 0, 0.5, 0.123456789
MathRandoms == {Zero, Dyadic(1, 1), parseFloat("0.123456789")}

\* What Math.random().toString(36).substring(2, 8) may give.
RandomSuffixes == {RandomSuffixOf(value) : value \in MathRandoms}

NoResponse ==
  [status |-> 0, error |-> "", productsCount |-> 0, recordsCount |-> 0,
   daysProcessed |-> 0]

ErrorResponse(status, error) ==
  [status |-> status, error |-> error, productsCount |-> 0,
   recordsCount |-> 0, daysProcessed |-> 0]

NoFileProvided == "No file provided"
NoValidDayColumns ==
  "No valid day columns found. Please ensure your Excel file has columns like \"Procurement Qty (Day 1)\", \"Sales Qty (Day 1)\", etc."
TypeError == "Cannot read properties of undefined (reading 'map')"
\* the message of the error tx.product.create throws for an integer that is
\* not of int4, in short
ValueOutOfRange == "Unable to fit integer value into an INT4"

\* the message of the error tx.product.create throws for a Float that is
\* not a finite number, in short
InvalidFloat == "Invalid value for argument: a Float is expected"

\* the last line of the message of the error tx.product.create throws
UniqueConstraintFailed == "Unique constraint failed on the fields: (id)"

\* An upload request: at is the await at which the transaction callback
\* stands, productName and id are those of the product of the row once they
\* are made, summary is set for a handler that sends daysProcessed.
NewRequest ==
  [pc |-> "new", maxDay |-> 0, dataSetId |-> 0, createdAt |-> 0, row |-> 0,
   at |-> "", productName |-> "", id |-> "", summary |-> TRUE,
   createdProducts |-> <<>>, keys |-> <<>>, response |-> NoResponse]

Requests == DOMAIN files

\* --------------------------------------------------------- POST /api/upload

\* The row is not skipped: both its ID and its Product Name are truthy.
Admitted(headers, row) ==
  Truthy(Cell(headers, row, "ID")) /\ Truthy(Cell(headers, row, "Product Name"))

uniqueProductId(dataSetId, productIdFromFile, timestamp, randomSuffix) ==
  ToString(dataSetId) \o "-" \o productIdFromFile \o "-"
    \o ToString(timestamp) \o "-" \o randomSuffix

\* The Product rows of the products a transaction has created.
ProductRows(createdProducts) ==
  {[id |-> createdProducts[i].id, name |-> createdProducts[i].name,
    dataSetId |-> createdProducts[i].dataSetId] :
     i \in 1 .. Len(createdProducts)}

\* The DailyData rows of the products a transaction has created.
DailyRows(createdProducts) ==
  UNION {{[productId |-> createdProducts[i].id] @@ createdProducts[i].dailyRecords[d] :
            d \in 1 .. Len(createdProducts[i].dailyRecords)} :
           i \in 1 .. Len(createdProducts)}

\* A query that reads the rows of the open transactions too.
SnapshotReadUncommitted ==
  [DataSet |-> DataSet \cup
     {[id |-> req[r].dataSetId, name |-> files[r].name,
       createdAt |-> req[r].createdAt] :
        r \in {q \in DOMAIN req : req[q].pc = "tx"}},
   Product |-> Product \cup
     UNION {ProductRows(req[r].createdProducts) :
              r \in {q \in DOMAIN req : req[q].pc = "tx"}},
   DailyData |-> DailyData \cup
     UNION {DailyRows(req[r].createdProducts) :
              r \in {q \in DOMAIN req : req[q].pc = "tx"}}]

\* What a query outside every transaction reads: the committed rows only.
Snapshot == [DataSet |-> DataSet, Product |-> Product, DailyData |-> DailyData]

\* The Product rows a query through the transaction client of request r
\* sees: the committed rows and the transaction's own.
TxProducts(r) == Product \cup ProductRows(req[r].createdProducts)

\* What is left of a transaction's writes once it is rolled back.
RolledBack(createdProducts) == <<>>

\* createdProducts.reduce((sum, p) => sum + p.dailyRecords.length, 0)
RECURSIVE recordsCount(_)
recordsCount(createdProducts) ==
  IF createdProducts = <<>> THEN 0
  ELSE Len(Head(createdProducts).dailyRecords)
         + recordsCount(Tail(createdProducts))

\* No validation of the detected maxDay.
NoValidation(maxDay) == FALSE

\* if (maxDay === 0): the file has no data of day 1 or later
NoDayData(maxDay) == maxDay = 0

\* The place of the first row from row i on that is not skipped, one past
\* the last row when there is none: if (!row['ID'] || !row['Product Name'])
\* continue
RECURSIVE NextAdmitted(_, _)
NextAdmitted(sheet, i) ==
  IF i > Len(sheet) THEN i
  ELSE IF Admitted(headersOf(sheet), sheet[i]) THEN i
  ELSE NextAdmitted(sheet, i + 1)

\* The request as the transaction begins: tx.dataSet.create, and the loop
\* over the rows up to the first await of generateUniqueProductName.
Begun(r, maxDay, summary) ==
  [req EXCEPT ![r].pc = "tx", ![r].maxDay = maxDay, ![r].summary = summary,
              ![r].dataSetId = dataSetSeq + 1,
              ![r].createdAt = now,
              ![r].row = NextAdmitted(files[r].sheet, 2),
              ![r].at = "findFirst"]

\* The parsing and validation before the transaction, and tx.dataSet.create.
UploadBegin(r) ==
  /\ req[r].pc = "new"
  \* requests are numbered in the order in which they arrive
  /\ IF r = 1 THEN TRUE ELSE req[r - 1].pc # "new"
  /\ LET file == files[r] IN
     IF file.none THEN
       /\ req' = [req EXCEPT ![r].pc = "done",
                             ![r].response = ErrorResponse(400, NoFileProvided)]
       /\ UNCHANGED dataSetSeq
     ELSE IF file.sheet = <<>> THEN
       \* rows[0] is undefined: rows[0].map throws, the catch answers 500
       /\ req' = [req EXCEPT ![r].pc = "done",
                             ![r].response = ErrorResponse(500, TypeError)]
       /\ UNCHANGED dataSetSeq
     ELSE LET maxDay == detectMaxDay(headersOf(file.sheet)) IN
       IF NoDayData(maxDay) THEN
         /\ req' = [req EXCEPT ![r].pc = "done", ![r].maxDay = maxDay,
                               ![r].response = ErrorResponse(400, NoValidDayColumns)]
         /\ UNCHANGED dataSetSeq
       ELSE
         /\ dataSetSeq' = dataSetSeq + 1
         /\ req' = Begun(r, maxDay, TRUE)
  /\ UNCHANGED <<files, DataSet, Product, DailyData, now, del, page, api, auth, floatingPanels, inflight>>

\* The handler of the upload that the file has first: it detects no days,
\* refuses no file for its columns and loops over the days 1 to 3; its
\* summary has no daysProcessed.
UploadBeginThreeDays(r) ==
  /\ req[r].pc = "new"
  /\ IF r = 1 THEN TRUE ELSE req[r - 1].pc # "new"
  /\ LET file == files[r] IN
     IF file.none THEN
       /\ req' = [req EXCEPT ![r].pc = "done",
                             ![r].response = ErrorResponse(400, NoFileProvided)]
       /\ UNCHANGED dataSetSeq
     ELSE IF file.sheet = <<>> THEN
       /\ req' = [req EXCEPT ![r].pc = "done",
                             ![r].response = ErrorResponse(500, TypeError)]
       /\ UNCHANGED dataSetSeq
     ELSE
       /\ dataSetSeq' = dataSetSeq + 1
       /\ req' = Begun(r, 3, FALSE)
  /\ UNCHANGED <<files, DataSet, Product, DailyData, now, del, page, api, auth, floatingPanels, inflight>>

\* The request once the name of the product of its row is known: const
\* timestamp = Date.now(), randomSuffix and uniqueProductId, and the code up
\* to await tx.product.create.
NamedProduct(r, productName, suffix) ==
  [req EXCEPT
     ![r].at = "create",
     ![r].productName = productName,
     ![r].id =
       uniqueProductId(
         req[r].dataSetId,
         String(Cell(headersOf(files[r].sheet), files[r].sheet[req[r].row],
                     "ID")),
         now, suffix)]

\* One query of generateUniqueProductName for the row answers, inside the
\* transaction: findFirst, after which the base name is the name or findMany
\* is sent, or findMany, after which the name is the numbered one.
UploadRowName(r) ==
  /\ req[r].pc = "tx"
  /\ req[r].row <= Len(files[r].sheet)
  /\ req[r].at \in {"findFirst", "findMany"}
  /\ LET baseName ==
           String(Cell(headersOf(files[r].sheet), files[r].sheet[req[r].row],
                       "Product Name"))
     IN
     IF req[r].at = "findFirst" THEN
       IF existingProduct(TxProducts(r), baseName, req[r].dataSetId) = {}
       THEN \E suffix \in RandomSuffixes : req' = NamedProduct(r, baseName, suffix)
       ELSE req' = [req EXCEPT ![r].at = "findMany"]
     ELSE
       \E suffix \in RandomSuffixes :
         req' = NamedProduct(r,
                      numberedName(
                        similarProducts(TxProducts(r), baseName,
                                        req[r].dataSetId),
                        baseName),
                      suffix)
  /\ UNCHANGED <<files, DataSet, Product, DailyData, dataSetSeq, now, del, page, api, auth, floatingPanels, inflight>>

\* await tx.product.create answers for the row, and the loop goes on to the
\* first await of the next row that is not skipped.
UploadRowCreate(r) ==
  /\ req[r].pc = "tx"
  /\ req[r].row <= Len(files[r].sheet)
  /\ req[r].at = "create"
  /\ LET headers == headersOf(files[r].sheet)
         row     == files[r].sheet[req[r].row]
         id      == req[r].id
         product ==
           [id |-> id, name |-> req[r].productName,
            dataSetId |-> req[r].dataSetId,
            dailyRecords |->
              dailyRecordsToCreate(headers, row, req[r].maxDay)]
     IN
     \E refused \in BOOLEAN :
         IF refused THEN
           \* Infinity and NaN have no JSON text: the client either sends
           \* the engine such a price or amount as it is and the record is
           \* written with it, or tx.product.create throws, the transaction
           \* is rolled back and the catch answers 500
           /\ ~AllFinite(headers, row, req[r].maxDay)
           /\ req' = [req EXCEPT
                        ![r].pc = "done",
                        ![r].keys = Append(@, id),
                        ![r].createdProducts = RolledBack(@),
                        ![r].response = ErrorResponse(500, InvalidFloat)]
         ELSE IF ~RecordsFit(headers, row, req[r].maxDay) THEN
           \* an integer no column of type INTEGER takes: tx.product.create
           \* throws, the transaction is rolled back and the catch answers 500
           req' = [req EXCEPT
                     ![r].pc = "done",
                     ![r].keys = Append(@, id),
                     ![r].createdProducts = RolledBack(@),
                     ![r].response = ErrorResponse(500, ValueOutOfRange)]
         ELSE IF \E p \in TxProducts(r) : p.id = id THEN
           \* Product_id_key: tx.product.create throws, the transaction is
           \* rolled back and the catch answers 500
           req' = [req EXCEPT
                     ![r].pc = "done",
                     ![r].keys = Append(@, id),
                     ![r].createdProducts = RolledBack(@),
                     ![r].response = ErrorResponse(500, UniqueConstraintFailed)]
         ELSE
           req' = [req EXCEPT
                     ![r].row = NextAdmitted(files[r].sheet, @ + 1),
                     ![r].at = "findFirst",
                     ![r].keys = Append(@, id),
                     ![r].createdProducts = Append(@, product)]
  /\ UNCHANGED <<files, DataSet, Product, DailyData, dataSetSeq, now, del, page, api, auth, floatingPanels, inflight>>

\* The callback returns: the transaction commits and the summary is sent
\* (daysProcessed 0: a summary without the property).
UploadCommit(r) ==
  /\ req[r].pc = "tx"
  /\ req[r].row > Len(files[r].sheet)
  /\ DataSet' = DataSet \cup
       {[id |-> req[r].dataSetId, name |-> files[r].name,
         createdAt |-> req[r].createdAt]}
  /\ Product' = Product \cup ProductRows(req[r].createdProducts)
  /\ DailyData' = DailyData \cup DailyRows(req[r].createdProducts)
  /\ req' = [req EXCEPT
       ![r].pc = "done",
       ![r].response =
         [status |-> 200, error |-> "",
          productsCount |-> Len(req[r].createdProducts),
          recordsCount |-> recordsCount(req[r].createdProducts),
          daysProcessed |-> IF req[r].summary THEN req[r].maxDay ELSE 0]]
  /\ UNCHANGED <<files, dataSetSeq, now, del, page, api, auth, floatingPanels, inflight>>

\* Time passes.
Tick ==
  /\ now < MaxClock
  /\ now' = now + 1
  /\ UNCHANGED <<files, req, DataSet, Product, DailyData, dataSetSeq, del, page, api, auth, floatingPanels, inflight>>

\* ----------------------------------------------------------------- reads

\* The body of the response of GET /api/datasets: every dataset with the
\* count of its products.  (A read changes no state: its response is a
\* function of the committed rows at the time of the query.)
GETDatasets ==
  {[id |-> d.id, name |-> d.name, createdAt |-> d.createdAt,
    productCount |->
      Cardinality({p \in Snapshot.Product : p.dataSetId = d.id})] :
     d \in Snapshot.DataSet}

\* The id of a committed dataset's createdAt.
CreatedAtOf(id) == (CHOOSE d \in Snapshot.DataSet : d.id = id).createdAt

\* The orders in which prisma.dataSet.findMany({ orderBy: { createdAt:
\* 'desc' } }) may give the datasets: the sequences of their ids without
\* repetition, the later dataset first; datasets of one createdAt come in
\* any order.
DataSetOrders ==
  {order \in [1 .. Cardinality(Snapshot.DataSet) -> {d.id : d \in Snapshot.DataSet}] :
     /\ \A i, j \in DOMAIN order : order[i] = order[j] => i = j
     /\ \A i, j \in DOMAIN order :
          i < j => CreatedAtOf(order[i]) >= CreatedAtOf(order[j])}

\* datasets of the body of GET /api/datasets, findMany giving the datasets
\* in the order of order.
GETDatasetsResponse(order) ==
  [i \in DOMAIN order |-> CHOOSE d \in GETDatasets : d.id = order[i]]

\* ----------------------------------------------------------- aggregation

\* The sequence without its element at place i.
RemoveAt(seq, i) == SubSeq(seq, 1, i - 1) \o SubSeq(seq, i + 1, Len(seq))

\* String(a) comes before String(b), or is it: the order of sort() without a
\* comparison function.
RECURSIVE TextCompare(_, _)
TextCompare(s, t) ==
  IF s = "" THEN (IF t = "" THEN 0 ELSE -1)
  ELSE IF t = "" THEN 1
  ELSE IF Head(s) = Head(t) THEN TextCompare(Tail(s), Tail(t))
  ELSE IF HexVal(Ch(s, 1)) < HexVal(Ch(t, 1)) THEN -1 ELSE 1

\* The comparison of sort() without a comparison function.
compareText(a, b) == TextCompare(ToString(a), ToString(b))

\* (a, b) => a - b
compareNumbers(a, b) == a - b

\* Array.from(allDays).sort((a, b) => a - b), of a sequence without
\* repetition
RECURSIVE sortedDays(_)
sortedDays(allDays) ==
  IF allDays = <<>> THEN <<>>
  ELSE <<allDays[CHOOSE i \in DOMAIN allDays :
                   \A j \in DOMAIN allDays :
                     compareNumbers(allDays[i], allDays[j]) <= 0]>>
         \o sortedDays(RemoveAt(allDays,
                                CHOOSE i \in DOMAIN allDays :
                                  \A j \in DOMAIN allDays :
                                    compareNumbers(allDays[i], allDays[j]) <= 0))

\* The stored fields of a DailyData row that a response carries.
RecordOf(x) ==
  [day |-> x.day, inventory |-> x.inventory,
   procurementQuantity |-> x.procurementQuantity,
   procurementPrice |-> x.procurementPrice,
   procurementAmount |-> x.procurementAmount,
   salesQuantity |-> x.salesQuantity, salesPrice |-> x.salesPrice,
   salesAmount |-> x.salesAmount]

\* include: { dailyRecords: { orderBy: { day: 'asc' } } }: the records of
\* the rows, by ascending day.  (A product has one row for a day.)
RECURSIVE dailyRecords(_)
dailyRecords(rows) ==
  IF rows = {} THEN <<>>
  ELSE <<RecordOf(CHOOSE x \in rows : \A y \in rows : x.day <= y.day)>>
         \o dailyRecords(rows \ {CHOOSE x \in rows : \A y \in rows : x.day <= y.day})

\* The orders in which prisma.product.findMany, which has no orderBy, may
\* give the products of a dataset: the sequences of their ids without
\* repetition.
ProductOrders(dataSetId) ==
  {order \in [1 .. Cardinality({p \in Snapshot.Product : p.dataSetId = dataSetId})
                -> {p.id : p \in {q \in Snapshot.Product : q.dataSetId = dataSetId}}] :
     \A i, j \in DOMAIN order : order[i] = order[j] => i = j}

\* prisma.product.findMany({ where: { dataSetId }, include: ... }), the
\* products given in the order of order
findMany(order) ==
  [i \in DOMAIN order |->
     [id |-> order[i],
      name |-> (CHOOSE p \in Snapshot.Product : p.id = order[i]).name,
      dailyRecords |->
        dailyRecords({x \in Snapshot.DailyData : x.productId = order[i]})]]

\* allDays.add(day) for each day of the sequence: the days in the order in
\* which they were added first
RECURSIVE AddDays(_, _)
AddDays(allDays, days) ==
  IF days = <<>> THEN allDays
  ELSE AddDays(IF \E i \in DOMAIN allDays : allDays[i] = Head(days)
               THEN allDays ELSE Append(allDays, Head(days)),
               Tail(days))

\* The days of the records of a product.
DaysOf(product) ==
  [k \in DOMAIN product.dailyRecords |-> product.dailyRecords[k].day]

\* allDays after products.forEach(product => product.dailyRecords.forEach(
\* record => allDays.add(record.day))), for the first n products
RECURSIVE allDays(_, _)
allDays(products, n) ==
  IF n = 0 THEN <<>>
  ELSE AddDays(allDays(products, n - 1), DaysOf(products[n]))

\* dayMap.set(day, { day, inventory: 0, salesAmount: 0,
\* procurementAmount: 0 })
NewDayData(day) ==
  [day |-> day, inventory |-> 0, salesAmount |-> Zero,
   procurementAmount |-> Zero]

\* The entry of a day after a record of another product has taken the place
\* of what was there.
ReplacedDayData(dayData, record) ==
  [day |-> dayData.day,
   inventory |-> record.inventory,
   salesAmount |-> Times(Double(record.salesQuantity), record.salesPrice),
   procurementAmount |->
     Times(Double(record.procurementQuantity), record.procurementPrice)]

\* dayData.inventory += record.inventory; dayData.salesAmount +=
\* record.salesQuantity * record.salesPrice; dayData.procurementAmount +=
\* record.procurementQuantity * record.procurementPrice
AddedDayData(dayData, record) ==
  [day |-> dayData.day,
   inventory |-> dayData.inventory + record.inventory,
   salesAmount |->
     Plus(dayData.salesAmount,
            Times(Double(record.salesQuantity), record.salesPrice)),
   procurementAmount |->
     Plus(dayData.procurementAmount,
            Times(Double(record.procurementQuantity), record.procurementPrice))]

\* The entry of a day after the first k records of a product.
RECURSIVE AddRecords(_, _, _)
AddRecords(dayData, records, k) ==
  IF k = 0 THEN dayData
  ELSE IF records[k].day = dayData.day
       THEN AddedDayData(AddRecords(dayData, records, k - 1), records[k])
       ELSE AddRecords(dayData, records, k - 1)

\* The entry of dayMap of a day after the aggregation of the first n
\* products.
RECURSIVE dayMap(_, _, _)
dayMap(products, n, day) ==
  IF n = 0 THEN NewDayData(day)
  ELSE AddRecords(dayMap(products, n - 1, day), products[n].dailyRecords,
                  Len(products[n].dailyRecords))

\* const aggregatedData = Array.from(dayMap.values()): the entries in the
\* order in which the days were set, that of sortedDays
aggregatedData(products) ==
  [k \in DOMAIN sortedDays(allDays(products, Len(products))) |->
     dayMap(products, Len(products),
            sortedDays(allDays(products, Len(products)))[k])]

\* A bound of the day range: null, an integer, or the number NaN.
NoDay == [set |-> FALSE, nan |-> FALSE, v |-> 0]

DayNumber(v) == [set |-> TRUE, nan |-> FALSE, v |-> v]

\* parseInt of an input that begins with no digit, such as .5
DayNaN == [set |-> TRUE, nan |-> TRUE, v |-> 0]

\* dayRange: null, and summary.dayRange: null
NoDayRange == [start |-> NoDay, end |-> NoDay]

\* The body a failed fetch leaves the page with.
NoDataResponse ==
  [ok |-> FALSE, status |-> 0, dataSetId |-> 0, rawProducts |-> <<>>,
   chartData |-> <<>>, totalProducts |-> 0, totalRecords |-> 0,
   dayRange |-> NoDayRange]

\* summary.dayRange: Math.min(...sortedDays) and Math.max(...sortedDays), or
\* null without a day
SummaryDayRange(days) ==
  IF days = <<>> THEN NoDayRange
  ELSE [start |-> DayNumber(days[1]), end |-> DayNumber(days[Len(days)])]

\* null, in the place of a number of a body.
Null == [k |-> "null", neg |-> FALSE, m |-> <<>>, e |-> 0]

\* A number as JSON.stringify writes it and response.json() reads it: NaN,
\* Infinity and -Infinity are written null.
JSONNumber(x) == IF x.k = "finite" THEN x ELSE Null

\* A record of dailyRecords as the body carries it.
JSONRecord(record) ==
  [record EXCEPT !.procurementPrice = JSONNumber(@),
                 !.procurementAmount = JSONNumber(@),
                 !.salesPrice = JSONNumber(@),
                 !.salesAmount = JSONNumber(@)]

\* A product of products and rawProducts as the body carries it.
JSONProduct(product) ==
  [product EXCEPT !.dailyRecords =
     [j \in DOMAIN product.dailyRecords |-> JSONRecord(product.dailyRecords[j])]]

\* An entry of chartData as the body carries it.
JSONDayData(dayData) ==
  [dayData EXCEPT !.salesAmount = JSONNumber(@),
                  !.procurementAmount = JSONNumber(@)]

\* NextResponse.json(body), read back by response.json().
NextResponseJson(body) ==
  [body EXCEPT
     !.rawProducts = [i \in DOMAIN body.rawProducts |-> JSONProduct(body.rawProducts[i])],
     !.chartData = [k \in DOMAIN body.chartData |-> JSONDayData(body.chartData[k])]]

\* The response of GET /api/data/{dataSetId} for a dataset that
\* prisma.dataSet.findUnique has found, prisma.product.findMany giving the
\* products in the order of order: the sums are taken over the stored
\* numbers and the body is written as JSON.
GETDataResponse(dataSetId, order) ==
  NextResponseJson(
    [ok |-> TRUE, status |-> 200, dataSetId |-> dataSetId,
     rawProducts |-> findMany(order),
     chartData |-> aggregatedData(findMany(order)),
     totalProducts |-> Len(order),
     totalRecords |-> recordsCount(findMany(order)),
     dayRange |->
       SummaryDayRange(
         sortedDays(allDays(findMany(order), Len(order))))])

ApiResponse(status, error) == [status |-> status, error |-> error]

\* The status and the error of the response of GET /api/data/{dataSetId}
\* for the text of the id of the path.
GETDataStatus(dataSetIdStr) ==
  IF parseInt(dataSetIdStr).nan THEN ApiResponse(400, "Invalid dataset ID")
  ELSE IF parseInt(dataSetIdStr).big
  THEN \* prisma.dataSet.findUnique throws and the catch answers
       ApiResponse(500, "Failed to fetch data")
  ELSE IF \A d \in Snapshot.DataSet : d.id # parseInt(dataSetIdStr).v
  THEN ApiResponse(404, "Dataset not found")
  ELSE ApiResponse(200, "")

\* ------------------------------------------------------- the dashboard page

\* const selectedProducts = dataResponse.rawProducts.filter(product =>
\*   selectedProductIds.includes(product.id))
selectedProducts(rawProducts, selectedProductIds) ==
  SelectSeq(rawProducts, LAMBDA product : product.id \in selectedProductIds)

\* The end of the range left out: record.day < dayRange.end.
withinEndExclusive(dayRange, day) ==
  IF dayRange.end.set THEN ~dayRange.end.nan /\ day < dayRange.end.v
  ELSE TRUE

\* typeof dayRange?.end === 'number' ? record.day <= dayRange.end : true
\* (NaN is a number, and no day is at most NaN)
withinEnd(dayRange, day) ==
  IF dayRange.end.set THEN ~dayRange.end.nan /\ day <= dayRange.end.v
  ELSE TRUE

\* typeof dayRange?.start === 'number' ? record.day >= dayRange.start : true
withinStart(dayRange, day) ==
  IF dayRange.start.set THEN ~dayRange.start.nan /\ day >= dayRange.start.v
  ELSE TRUE

\* The days of the records of a product that are within the range.
DaysWithin(product, dayRange) ==
  SelectSeq(DaysOf(product),
            LAMBDA day : withinStart(dayRange, day) /\ withinEnd(dayRange, day))

\* allDays of the page after the first n selected products: the days within
\* the range, in the order in which they were added first
RECURSIVE allDaysWithin(_, _, _)
allDaysWithin(products, n, dayRange) ==
  IF n = 0 THEN <<>>
  ELSE AddDays(allDaysWithin(products, n - 1, dayRange),
               DaysWithin(products[n], dayRange))

\* dayData[key] = value
SetField(dayData, key, value) ==
  [dayData EXCEPT !.fields = (key :> value) @@ dayData.fields]

\* dayData[`${productName}_Inventory`] = record.inventory;
\* dayData[`${productName}_Sales`] = record.salesAmount;
\* dayData[`${productName}_Procurement`] = record.procurementAmount
SetFields(dayData, productName, record) ==
  SetField(
    SetField(
      SetField(dayData, productName \o "_Inventory", record.inventory),
      productName \o "_Sales", record.salesAmount),
    productName \o "_Procurement", record.procurementAmount)

\* The entry of a day after the first k records of a selected product.
RECURSIVE SetRecords(_, _, _, _, _)
SetRecords(dayData, productName, records, k, dayRange) ==
  IF k = 0 THEN dayData
  ELSE IF /\ withinStart(dayRange, records[k].day)
          /\ withinEnd(dayRange, records[k].day)
          /\ records[k].day = dayData.key
       THEN SetFields(SetRecords(dayData, productName, records, k - 1, dayRange),
                      productName, records[k])
       ELSE SetRecords(dayData, productName, records, k - 1, dayRange)

\* if (dayData[key] === undefined) dayData[key] = 0
FillField(dayData, key, zero) ==
  IF key \in DOMAIN dayData.fields THEN dayData
  ELSE SetField(dayData, key, zero)

\* Fill missing values with 0, for one product
FillFields(dayData, productName) ==
  FillField(
    FillField(
      FillField(dayData, productName \o "_Inventory", 0),
      productName \o "_Sales", Zero),
    productName \o "_Procurement", Zero)

\* The entry of a day after the values of the first n selected products
\* have been set.
RECURSIVE SetProducts(_, _, _, _)
SetProducts(dayData, products, n, dayRange) ==
  IF n = 0 THEN dayData
  ELSE SetRecords(SetProducts(dayData, products, n - 1, dayRange),
                  products[n].name, products[n].dailyRecords,
                  Len(products[n].dailyRecords), dayRange)

\* The entry of a day after the missing values of the first n selected
\* products have been filled.
RECURSIVE FillProducts(_, _, _)
FillProducts(dayData, products, n) ==
  IF n = 0 THEN dayData
  ELSE FillFields(FillProducts(dayData, products, n - 1), products[n].name)

\* chartDataMap.set(day, { day: `Day ${day}` }); key is the key of the entry
\* in the map and fields are the properties set later.
NewChartEntry(day) ==
  [key |-> day, day |-> "Day " \o ToString(day), fields |-> <<>>]

\* The wide series of the selected products over the days of days.
ChartEntries(products, days, dayRange) ==
  [k \in DOMAIN days |->
     FillProducts(
       SetProducts(NewChartEntry(days[k]), products, Len(products), dayRange),
       products, Len(products))]

\* const transformedChartData = useMemo(...)
transformedChartData(rawProducts, selectedProductIds, dayRange) ==
  IF selectedProductIds = {} THEN <<>>
  ELSE IF selectedProducts(rawProducts, selectedProductIds) = <<>> THEN <<>>
  ELSE ChartEntries(
         selectedProducts(rawProducts, selectedProductIds),
         sortedDays(
           allDaysWithin(selectedProducts(rawProducts, selectedProductIds),
                         Len(selectedProducts(rawProducts, selectedProductIds)),
                         dayRange)),
         dayRange)

\* The page as it is first rendered: dataSets [], selectedSetId null (0),
\* isLoadingDatasets true, isLoadingData false, dataResponse null,
\* selectedProductIds [], rightPanelTab 'products', dayRange null and
\* hasInitialized.current false.
NewPage ==
  [dataSets |-> <<>>, selectedSetId |-> 0, isLoadingDatasets |-> TRUE,
   dataResponse |-> NoDataResponse,
   selectedProductIds |-> {}, rightPanelTab |-> "products",
   dayRange |-> NoDayRange,
   hasInitialized |-> FALSE, isLoadingData |-> FALSE,
   editingId |-> 0, editingName |-> "", isUpdating |-> FALSE,
   isDeleting |-> 0]

\* What the handlers of DaySelector make of the inputs: null of the cleared
\* input, the integers of 3, 6 and 11, and NaN of .5
DayInputs == {NoDay, DayNumber(3), DayNumber(6), DayNumber(11), DayNaN}

\* const [floatingPanels, setFloatingPanels] = React.useState({})
NoPanels == <<>>

\* The block of the charts and the selectors is rendered on page pg: nothing
\* is loading and the dataset has products.
Rendered(pg) ==
  /\ ~pg.isLoadingData
  /\ ~pg.isLoadingDatasets
  /\ pg.dataResponse.ok
  /\ Len(pg.dataResponse.rawProducts) > 0

\* DashboardChart is rendered on page pg: the block is, and the wide series
\* is not empty.
Mounted(pg) ==
  /\ Rendered(pg)
  /\ transformedChartData(pg.dataResponse.rawProducts, pg.selectedProductIds,
                          pg.dayRange) # <<>>

\* The panels of DashboardChart once the page is pg: the state of the
\* component lasts as long as it stays rendered.
PanelsOn(pg) ==
  IF floatingPanels = NoPanels THEN NoPanels
  ELSE IF Mounted(pg) THEN floatingPanels ELSE NoPanels

\* The most requests of the page in flight at a time.
MaxInflight == 3

\* What a request of the page carries when it is no DELETE and no PUT of
\* DatasetManager: the request of the server that takes it (k), the id of
\* the path and the name of the body.
NoBody == [k |-> 0, datasetId |-> 0, name |-> ""]

\* fetch('/api/datasets') of loadDatasets, begun while selectedSetId was
\* selectedSetId: the request is on its way to prisma.dataSet.findMany.
DatasetsRequest(selectedSetId) ==
  [url |-> "/api/datasets", by |-> "loadDatasets",
   selectedSetId |-> selectedSetId, at |-> "findMany", datasets |-> <<>>,
   response |-> NoDataResponse, body |-> NoBody]

\* fetch(`/api/data/${selectedSetId}`) of loadChartData: the request is on
\* its way to prisma.dataSet.findUnique.
DataRequest(selectedSetId) ==
  [url |-> "/api/data", by |-> "loadChartData",
   selectedSetId |-> selectedSetId, at |-> "findUnique", datasets |-> <<>>,
   response |-> NoDataResponse, body |-> NoBody]

\* The requests that the effects on selectedSetId begin: loadDatasets, and
\* loadChartData unless selectedSetId is null.
EffectRequests(selectedSetId) ==
  <<DatasetsRequest(selectedSetId)>>
    \o (IF selectedSetId = 0 THEN <<>> ELSE <<DataRequest(selectedSetId)>>)

\* Page pg after setSelectedSetId(id) with another id and the effects on
\* selectedSetId up to their fetches: loadDatasets sets isLoadingDatasets,
\* hasInitialized.current is reset and loadChartData sets isLoadingData,
\* or, with null, sets dataResponse to null.
Selected(pg, id) ==
  IF id = 0
  THEN [pg EXCEPT !.selectedSetId = 0, !.isLoadingDatasets = TRUE,
                  !.dataResponse = NoDataResponse]
  ELSE [pg EXCEPT !.selectedSetId = id, !.isLoadingDatasets = TRUE,
                  !.hasInitialized = FALSE, !.isLoadingData = TRUE]

\* The page is loaded anew (window.location.reload(), or the reload of the
\* browser): the state is that of the first render and loadDatasets has
\* begun its fetch; what was in flight is answered to no one.
reload ==
  /\ page' = NewPage
  /\ inflight' = <<DatasetsRequest(0)>>
  /\ <<page', inflight'>> # <<page, inflight>>
  /\ floatingPanels' = NoPanels
  /\ UNCHANGED <<files, req, DataSet, Product, DailyData, dataSetSeq, now, del, api, auth>>

\* The select of DatasetManager: onDatasetSelect={setSelectedSetId} with the
\* id of an option, or null (0) for "Choose a dataset...", and the effects
\* on selectedSetId.  DatasetManager is rendered when dataSets is not empty,
\* and its select when no name is being edited.
onDatasetSelect(id) ==
  /\ page.dataSets # <<>>
  /\ page.editingId = 0
  /\ id = 0 \/ \E i \in DOMAIN page.dataSets : page.dataSets[i].id = id
  /\ id # page.selectedSetId
  /\ Len(inflight) + Len(EffectRequests(id)) <= MaxInflight
  /\ page' = Selected(page, id)
  /\ inflight' = inflight \o EffectRequests(id)
  /\ floatingPanels' = PanelsOn(page')
  /\ UNCHANGED <<files, req, DataSet, Product, DailyData, dataSetSeq, now, del, api, auth>>

\* GET /api/datasets for the i-th request in flight: prisma.dataSet.findMany
\* gives the datasets in the order of order, and the response is sent.
GETDatasetsFindMany(i, order) ==
  /\ i \in DOMAIN inflight
  /\ inflight[i].url = "/api/datasets"
  /\ inflight[i].at = "findMany"
  /\ order \in DataSetOrders
  /\ inflight' = [inflight EXCEPT ![i].at = "sent",
                                  ![i].datasets = GETDatasetsResponse(order)]
  /\ UNCHANGED <<files, req, DataSet, Product, DailyData, dataSetSeq, now, del, page, api, auth, floatingPanels>>

\* The rest of loadDatasets for the i-th request in flight:
\* setDataSets(data.datasets), the first dataset is selected if
\* selectedSetId was null when the effect ran, and isLoadingDatasets is
\* reset; a selection of another id runs the effects on selectedSetId.
loadDatasetsResolved(i) ==
  /\ i \in DOMAIN inflight
  /\ inflight[i].by = "loadDatasets"
  /\ inflight[i].at = "sent"
  /\ LET listed == [page EXCEPT !.dataSets = inflight[i].datasets,
                                !.isLoadingDatasets = FALSE]
         selects == /\ Len(inflight[i].datasets) > 0
                    /\ inflight[i].selectedSetId = 0
                    /\ inflight[i].datasets[1].id # page.selectedSetId
     IN  /\ page' = IF selects
                    THEN Selected(listed, inflight[i].datasets[1].id)
                    ELSE listed
         /\ inflight' = RemoveAt(inflight, i)
                          \o (IF selects
                              THEN EffectRequests(inflight[i].datasets[1].id)
                              ELSE <<>>)
  /\ Len(inflight') <= MaxInflight
  /\ floatingPanels' = PanelsOn(page')
  /\ UNCHANGED <<files, req, DataSet, Product, DailyData, dataSetSeq, now, del, api, auth>>

\* GET /api/data/{dataSetId} for the i-th request in flight, up to
\* prisma.dataSet.findUnique: without the dataset the response is sent.
GETDataFindUnique(i) ==
  /\ i \in DOMAIN inflight
  /\ inflight[i].url = "/api/data"
  /\ inflight[i].at = "findUnique"
  /\ inflight' =
       [inflight EXCEPT ![i] =
          IF GETDataStatus(ToString(inflight[i].selectedSetId)).status = 200
          THEN [@ EXCEPT !.at = "findMany"]
          ELSE [@ EXCEPT !.at = "sent",
                  !.response.status =
                    GETDataStatus(ToString(inflight[i].selectedSetId)).status]]
  /\ UNCHANGED <<files, req, DataSet, Product, DailyData, dataSetSeq, now, del, page, api, auth, floatingPanels>>

\* GET /api/data/{dataSetId} for the i-th request in flight, from
\* prisma.product.findMany, which gives the products in the order of
\* order, to the response.
GETDataFindMany(i, order) ==
  /\ i \in DOMAIN inflight
  /\ inflight[i].url = "/api/data"
  /\ inflight[i].at = "findMany"
  /\ order \in ProductOrders(inflight[i].selectedSetId)
  /\ inflight' =
       [inflight EXCEPT ![i].at = "sent",
          ![i].response = GETDataResponse(inflight[i].selectedSetId, order)]
  /\ UNCHANGED <<files, req, DataSet, Product, DailyData, dataSetSeq, now, del, page, api, auth, floatingPanels>>

\* The state of the page once a response is in, whichever dataset is
\* selected by then: setDataResponse(data) and the effects on dataResponse
\* (the products are unselected unless hasInitialized.current is set,
\* dayRange is summary.dayRange), or setDataResponse(null).
Arrived(response) ==
  IF response.ok
  THEN [page EXCEPT
          !.dataResponse = response,
          !.selectedProductIds = IF page.hasInitialized THEN @ ELSE {},
          !.dayRange = IF response.dayRange.start.set THEN response.dayRange
                       ELSE @,
          !.hasInitialized = TRUE,
          !.isLoadingData = FALSE]
  ELSE [page EXCEPT !.dataResponse = NoDataResponse, !.isLoadingData = FALSE]

\* A page that takes the response of the request for the selected dataset
\* only.
ArrivedIfSelected(id, response) ==
  IF id = page.selectedSetId THEN Arrived(response) ELSE page

\* What the response of the request for dataset id does to the page: the
\* effect sets the state whatever selectedSetId is by now.
ArrivedFor(id, response) == Arrived(response)

\* The rest of loadChartData for the i-th request in flight: the responses
\* come in any order.
fetchResolved(i) ==
  /\ i \in DOMAIN inflight
  /\ inflight[i].url = "/api/data"
  /\ inflight[i].at = "sent"
  /\ page' = ArrivedFor(inflight[i].selectedSetId, inflight[i].response)
  /\ inflight' = RemoveAt(inflight, i)
  /\ floatingPanels' = PanelsOn(page')
  /\ UNCHANGED <<files, req, DataSet, Product, DailyData, dataSetSeq, now, del, api, auth>>

\* fetch('/api/datasets') of the loadDatasets of onDatasetUpdate, of the
\* render in which selectedSetId was selectedSetId.
RefreshRequest(selectedSetId) ==
  [DatasetsRequest(selectedSetId) EXCEPT !.by = "onDatasetUpdate"]

\* The page and its requests once onDatasetUpdate of that render has run up
\* to its fetch: setIsLoadingDatasets(true).
onDatasetUpdate(pg, selectedSetId) ==
  [page |-> [pg EXCEPT !.isLoadingDatasets = TRUE],
   requests |-> <<RefreshRequest(selectedSetId)>>]

\* The rest of the loadDatasets of onDatasetUpdate for the i-th request in
\* flight: setDataSets(data.datasets); the first dataset of the list, or
\* null without one, is selected if selectedSetId was null in that render or
\* is the id of no dataset of the list; isLoadingDatasets is reset.  A
\* selection of another id runs the effects on selectedSetId.
onDatasetUpdateResolved(i) ==
  /\ i \in DOMAIN inflight
  /\ inflight[i].by = "onDatasetUpdate"
  /\ inflight[i].at = "sent"
  /\ LET datasets == inflight[i].datasets
         listed == [page EXCEPT !.dataSets = datasets,
                                !.isLoadingDatasets = FALSE]
         first == IF Len(datasets) > 0 THEN datasets[1].id ELSE 0
         selects ==
           /\ \/ inflight[i].selectedSetId = 0
              \/ \A j \in DOMAIN datasets :
                   datasets[j].id # inflight[i].selectedSetId
           /\ first # page.selectedSetId
     IN  /\ page' = IF selects THEN Selected(listed, first) ELSE listed
         /\ inflight' = RemoveAt(inflight, i)
                          \o (IF selects THEN EffectRequests(first) ELSE <<>>)
  /\ Len(inflight') <= MaxInflight
  /\ floatingPanels' = PanelsOn(page')
  /\ UNCHANGED <<files, req, DataSet, Product, DailyData, dataSetSeq, now, del, api, auth>>

\* useState<'products' | 'days'>
RightPanelTabs == {"products", "days"}

\* The buttons of the tabs of the right panel.
setRightPanelTab(tab) ==
  /\ Rendered(page)
  /\ tab # page.rightPanelTab
  /\ page' = [page EXCEPT !.rightPanelTab = tab]
  /\ UNCHANGED <<files, req, DataSet, Product, DailyData, dataSetSeq, now, del, api, auth, floatingPanels, inflight>>

\* handleProductToggle of ProductSelector, which is rendered in the block
\* under the tab 'products', for a product of dataResponse.products
handleProductToggle(productId) ==
  /\ Rendered(page)
  /\ page.rightPanelTab = "products"
  /\ \E i \in DOMAIN page.dataResponse.rawProducts :
       page.dataResponse.rawProducts[i].id = productId
  /\ page' = [page EXCEPT !.selectedProductIds =
                IF productId \in @ THEN @ \ {productId}
                ELSE @ \cup {productId}]
  /\ floatingPanels' = PanelsOn(page')
  /\ UNCHANGED <<files, req, DataSet, Product, DailyData, dataSetSeq, now, del, api, auth, inflight>>

\* handleSelectAll of ProductSelector: if (selectedProductIds.length ===
\* products.length) onProductSelectionChange([]) else
\* onProductSelectionChange(products.map(p => p.id))
handleSelectAll ==
  /\ Rendered(page)
  /\ page.rightPanelTab = "products"
  /\ page' = [page EXCEPT !.selectedProductIds =
                IF Cardinality(@) = Len(page.dataResponse.rawProducts)
                THEN {}
                ELSE {page.dataResponse.rawProducts[i].id :
                        i \in DOMAIN page.dataResponse.rawProducts}]
  /\ floatingPanels' = PanelsOn(page')
  /\ UNCHANGED <<files, req, DataSet, Product, DailyData, dataSetSeq, now, del, api, auth, inflight>>

\* DaySelector is rendered: in the block, under the tab 'days', for a
\* response with summary.dayRange.
DaySelectorRendered ==
  /\ Rendered(page)
  /\ page.rightPanelTab = "days"
  /\ page.dataResponse.dayRange.start.set

\* handleStartDayChange and clearStartDay of DaySelector
handleStartDayChange(value) ==
  /\ DaySelectorRendered
  /\ page' = [page EXCEPT !.dayRange.start = value]
  /\ floatingPanels' = PanelsOn(page')
  /\ UNCHANGED <<files, req, DataSet, Product, DailyData, dataSetSeq, now, del, api, auth, inflight>>

\* handleEndDayChange and clearEndDay of DaySelector
handleEndDayChange(value) ==
  /\ DaySelectorRendered
  /\ page' = [page EXCEPT !.dayRange.end = value]
  /\ floatingPanels' = PanelsOn(page')
  /\ UNCHANGED <<files, req, DataSet, Product, DailyData, dataSetSeq, now, del, api, auth, inflight>>

\* The button Clear All of DaySelector: onDayRangeChange({ start: null,
\* end: null })
clearAll ==
  /\ DaySelectorRendered
  /\ page' = [page EXCEPT !.dayRange = NoDayRange]
  /\ floatingPanels' = PanelsOn(page')
  /\ UNCHANGED <<files, req, DataSet, Product, DailyData, dataSetSeq, now, del, api, auth, inflight>>

\* The overview series of the page: chartData, as fetched.
chartData == page.dataResponse.chartData

\* The wide series of the page.
TransformedChartData ==
  transformedChartData(page.dataResponse.rawProducts,
                       page.selectedProductIds, page.dayRange)

\* ------------------------------------------- the panels of DashboardChart

\* const dayKey = `Day ${record.day}`
DayKey(day) == "Day " \o ToString(day)

\* The places of the records of the day in the selected products: product
\* i, record j.
RecordsOfDay(products, day) ==
  UNION {{<<i, j>> : j \in {j \in DOMAIN products[i].dailyRecords :
                              DayKey(products[i].dailyRecords[j].day) = day}} :
         i \in DOMAIN products}

\* detailedDataMap.get(day): has tells whether the map has the day, and
\* products is Object.entries of its object, the record of the day under
\* the name of each selected product that has one.  A later assignment to
\* a name takes the place of an earlier one, and the assignment to the name
\* __proto__ sets the prototype of the object and adds no key.
detailedDataMap(products, day) ==
  [has |-> RecordsOfDay(products, day) # {},
   products |->
     {[productName |-> products[at[1]].name,
       record |-> products[at[1]].dailyRecords[at[2]]] :
        at \in {a \in RecordsOfDay(products, day) :
                  /\ products[a[1]].name # "__proto__"
                  /\ \A b \in RecordsOfDay(products, day) :
                       products[b[1]].name = products[a[1]].name =>
                         \/ b[1] < a[1]
                         \/ b[1] = a[1] /\ b[2] <= a[2]}}]

\* floatingPanels[day]
HasPanel(panels, day) == \E i \in DOMAIN panels : panels[i].id = day

\* const newPanel = { id: day, data: panelData, initialPosition }; offset
\* is Object.keys(floatingPanels).length * 25, which initialPosition adds
\* to the centre of the window.
NewPanel(panels, day, details) ==
  [id |-> day,
   data |-> [day |-> day,
             products |-> {[productName |-> e.productName,
                            inventory |-> e.record.inventory,
                            salesAmount |-> e.record.salesAmount,
                            procurementAmount |-> e.record.procurementAmount] :
                           e \in details.products}],
   offset |-> Len(panels) * 25]

\* A click handler without "if (floatingPanels[day]) return": the panel of
\* the day is built again and takes the place of the old one.
OpenedAgain(panels, day, details) ==
  IF ~details.has THEN panels
  ELSE IF HasPanel(panels, day)
  THEN [i \in DOMAIN panels |->
          IF panels[i].id = day THEN NewPanel(panels, day, details)
          ELSE panels[i]]
  ELSE Append(panels, NewPanel(panels, day, details))

\* The panels after handleChartClick on the label day; the panels are kept
\* in the order of their keys in the object, the order of insertion.
Opened(panels, day, details) ==
  IF HasPanel(panels, day) THEN panels
  ELSE IF ~details.has THEN panels
  ELSE Append(panels, NewPanel(panels, day, details))

\* const newPanels = { ...prev }; delete newPanels[day]
Closed(panels, day) == SelectSeq(panels, LAMBDA p : p.id # day)

\* The labels of the chart: the day of each entry of the data prop.
ActiveLabels ==
  {TransformedChartData[i].day : i \in DOMAIN TransformedChartData}

\* A click on the data point of the label day of the rendered chart.
handleChartClick(day) ==
  /\ Mounted(page)
  /\ day \in ActiveLabels
  /\ floatingPanels' =
       Opened(floatingPanels, day,
              detailedDataMap(
                selectedProducts(page.dataResponse.rawProducts,
                                 page.selectedProductIds),
                day))
  /\ UNCHANGED <<files, req, DataSet, Product, DailyData, dataSetSeq, now, del, page, api, auth, inflight>>

\* The close button of the panel of the day.
handleClosePanel(day) ==
  /\ HasPanel(floatingPanels, day)
  /\ floatingPanels' = Closed(floatingPanels, day)
  /\ UNCHANGED <<files, req, DataSet, Product, DailyData, dataSetSeq, now, del, page, api, auth, inflight>>

\* if (ev.key === 'Escape') setFloatingPanels({}), while the component is
\* rendered.
onKey ==
  /\ Mounted(page)
  /\ floatingPanels' = NoPanels
  /\ UNCHANGED <<files, req, DataSet, Product, DailyData, dataSetSeq, now, del, page, api, auth, inflight>>

\* ------------------------------------------------- DELETE /api/datasets/{id}

NoDeleteResponse == [status |-> 0, error |-> "", productCount |-> 0]

NewDelete ==
  [pc |-> "new", datasetId |-> 0, productCount |-> 0,
   response |-> NoDeleteResponse]

DeleteRequests == 1 .. MaxDeletes

\* The texts of the id of the path of a DELETE request.
DeleteIds == {"1", "2", "x"}

\* prisma.dataSet.delete without the deletion of the rows that refer to the
\* dataset.
DeletedNoCascade(datasetId) ==
  [DataSet |-> {d \in DataSet : d.id # datasetId},
   Product |-> Product,
   DailyData |-> DailyData]

\* prisma.dataSet.delete({ where: { id: datasetId } }): the row of the
\* dataset goes, and ON DELETE CASCADE takes the products that refer to it
\* and the records that refer to these.
Deleted(datasetId) ==
  [DataSet |-> {d \in DataSet : d.id # datasetId},
   Product |-> {p \in Product : p.dataSetId # datasetId},
   DailyData |->
     {x \in DailyData :
        \A p \in Product : p.id = x.productId => p.dataSetId # datasetId}]

\* del once prisma.dataSet.findUnique has answered DELETE request k.
DELETEFound(k, idStr) ==
  IF parseInt(idStr).nan THEN
    [del EXCEPT
       ![k].pc = "done",
       ![k].response = [status |-> 400, error |-> "Invalid dataset ID",
                        productCount |-> 0]]
  ELSE IF parseInt(idStr).big THEN
    \* an id no INTEGER column takes: prisma.dataSet.findUnique throws
    [del EXCEPT
       ![k].pc = "done",
       ![k].response = [status |-> 500,
                        error |-> "Failed to delete dataset",
                        productCount |-> 0]]
  ELSE IF \A d \in Snapshot.DataSet : d.id # parseInt(idStr).v THEN
    [del EXCEPT
       ![k].pc = "done",
       ![k].datasetId = parseInt(idStr).v,
       ![k].response = [status |-> 404, error |-> "Dataset not found",
                        productCount |-> 0]]
  ELSE
    [del EXCEPT
       ![k].pc = "found",
       ![k].datasetId = parseInt(idStr).v,
       ![k].productCount =
         Cardinality({p \in Snapshot.Product :
                        p.dataSetId = parseInt(idStr).v})]

\* DELETE up to the answer of prisma.dataSet.findUnique.
DELETEFind(k, idStr) ==
  /\ del[k].pc = "new"
  /\ IF k = 1 THEN TRUE ELSE del[k - 1].pc # "new"
  /\ del' = DELETEFound(k, idStr)
  /\ UNCHANGED <<files, req, DataSet, Product, DailyData, dataSetSeq, now, page, api, auth, floatingPanels, inflight>>

\* DELETE from prisma.dataSet.delete on; the delete of a row that is no
\* longer there throws and the catch answers 500.
DELETEDataSet(k) ==
  /\ del[k].pc = "found"
  /\ IF \A d \in DataSet : d.id # del[k].datasetId THEN
       /\ del' = [del EXCEPT
                    ![k].pc = "done",
                    ![k].response = [status |-> 500,
                                     error |-> "Failed to delete dataset",
                                     productCount |-> 0]]
       /\ UNCHANGED <<DataSet, Product, DailyData>>
     ELSE
       /\ DataSet' = Deleted(del[k].datasetId).DataSet
       /\ Product' = Deleted(del[k].datasetId).Product
       /\ DailyData' = Deleted(del[k].datasetId).DailyData
       /\ del' = [del EXCEPT
                    ![k].pc = "done",
                    ![k].response = [status |-> 200, error |-> "",
                                     productCount |-> del[k].productCount]]
  /\ UNCHANGED <<files, req, dataSetSeq, now, page, api, auth, floatingPanels, inflight>>

\* ------------------------------------------- the other endpoints, at rest

\* No response yet.
NoApiResponse == [status |-> 0, error |-> ""]

\* No GET /api/data/{dataSetId} yet.
NoGet ==
  [dataSetId |-> "", at |-> "", status |-> 0, error |-> "",
   response |-> NoDataResponse]

\* No POST /api/ai/analyze yet.
NoAnalysis ==
  [at |-> "", status |-> 0, error |-> "", dataSetId |-> Undefined,
   userQuestion |-> Undefined, chartData |-> FALSE, asked |-> <<>>]

\* A PUT request that has not begun.
NewPut == [pc |-> "new", datasetId |-> 0, name |-> "", response |-> NoApiResponse]

\* A DELETE request the middleware has not seen.
NotRouted ==
  [pathname |-> "", token |-> Undefined, seen |-> FALSE, next |-> FALSE,
   status |-> 0, error |-> "", redirect |-> "", cookieDeleted |-> FALSE]

\* A registration that has not begun.
NewRegistration ==
  [pc |-> "new", username |-> Undefined, password |-> Undefined,
   referenceCode |-> Undefined, response |-> NoApiResponse]

\* ----------------------------------------------------------- middleware

protectedRoutes == {"/dashboard", "/api/datasets", "/api/data", "/api/upload"}

publicRoutes == {"/login", "/register"}

publicApiRoutes == {"/api/auth/login", "/api/auth/register", "/api/auth/logout"}

\* The token that jwt.verify accepts: signed with JWT_SECRET and not expired.
SignedToken == "signed"

\* The value of the cookie 'token': none, a token of this server, one that
\* has expired, one signed with another secret.
Tokens == {Undefined, Str(SignedToken), Str("expired"), Str("forged")}

\* verifyToken(token) gives a payload, not null
verifyToken(token) == token = SignedToken

\* s holds the character c
HasChar(s, c) == \E i \in 1 .. Len(s) : Ch(s, i) = c

\* A matcher that takes every path.
matchAll(pathname) == TRUE

\* config.matcher, '/((?!_next/static|_next/image|favicon.ico|.*\\..*$).*)':
\* the middleware runs for the path.  (The . of favicon.ico is any character;
\* the last alternative excludes every path that holds a dot.)
matcher(pathname) ==
  /\ startsWith(pathname, "/")
  /\ LET rest == Tail(pathname) IN
     /\ ~startsWith(rest, "_next/static")
     /\ ~startsWith(rest, "_next/image")
     /\ ~(startsWith(rest, "favicon") /\ Len(rest) >= 11
          /\ SubSeq(rest, 9, 11) = "ico")
     /\ ~HasChar(rest, ".")

\* The characters that the serialisation of URLSearchParams leaves as they
\* are: the letters and digits of ASCII and * - . _
FormUnreserved ==
  Digits \cup
    {"a", "b", "c", "d", "e", "f", "g", "h", "i", "j", "k", "l", "m", "n",
     "o", "p", "q", "r", "s", "t", "u", "v", "w", "x", "y", "z", "A", "B",
     "C", "D", "E", "F", "G", "H", "I", "J", "K", "L", "M", "N", "O", "P",
     "Q", "R", "S", "T", "U", "V", "W", "X", "Y", "Z", "*", "-", ".", "_"}

\* The serialisation of another character of ASCII: + for the space, and
\* else % and the two hexadecimal digits of its code.
FormByte(c) ==
  CASE c = " " -> "+" [] c = "!" -> "%21" [] c = "\"" -> "%22"
    [] c = "#" -> "%23" [] c = "$" -> "%24" [] c = "%" -> "%25"
    [] c = "&" -> "%26" [] c = "'" -> "%27" [] c = "(" -> "%28"
    [] c = ")" -> "%29" [] c = "+" -> "%2B" [] c = "," -> "%2C"
    [] c = "/" -> "%2F" [] c = ":" -> "%3A" [] c = ";" -> "%3B"
    [] c = "<" -> "%3C" [] c = "=" -> "%3D" [] c = ">" -> "%3E"
    [] c = "?" -> "%3F" [] c = "@" -> "%40" [] c = "[" -> "%5B"
    [] c = "\\" -> "%5C" [] c = "]" -> "%5D" [] c = "^" -> "%5E"
    [] c = "{" -> "%7B" [] c = "|" -> "%7C" [] c = "}" -> "%7D"
    [] c = "~" -> "%7E"

\* The serialisation of a pathname as a value of URLSearchParams.  The
\* pathname of a URL holds printable characters of ASCII only: the parser of
\* the URL has percent-encoded every other, and the grave accent too.
RECURSIVE FormEncode(_)
FormEncode(path) ==
  IF path = "" THEN ""
  ELSE (IF Ch(path, 1) \in FormUnreserved THEN Ch(path, 1)
        ELSE FormByte(Ch(path, 1)))
         \o FormEncode(Tail(path))

\* NextResponse.next()
Allow ==
  [next |-> TRUE, status |-> 200, error |-> "", redirect |-> "",
   cookieDeleted |-> FALSE]

Unauthorized ==
  [next |-> FALSE, status |-> 401, error |-> "Unauthorized",
   redirect |-> "", cookieDeleted |-> FALSE]

\* NextResponse.redirect(url)
Redirect(url) ==
  [next |-> FALSE, status |-> 307, error |-> "", redirect |-> url,
   cookieDeleted |-> FALSE]

\* response.cookies.delete('token')
CookieDeleted(response) == [response EXCEPT !.cookieDeleted = TRUE]

\* middleware(request) for the pathname and the cookie 'token' of the request
middleware(pathname, token) ==
  LET isProtectedRoute ==
        \E route \in protectedRoutes : startsWith(pathname, route)
      isPublicRoute == pathname \in publicRoutes
      isPublicApiRoute ==
        \E route \in publicApiRoutes : startsWith(pathname, route)
  IN  IF isProtectedRoute /\ ~isPublicApiRoute THEN
        IF ~Truthy(token) THEN
          IF startsWith(pathname, "/api/") THEN Unauthorized
          ELSE Redirect("/login?redirect=" \o FormEncode(pathname))
        ELSE IF ~verifyToken(String(token)) THEN
          IF startsWith(pathname, "/api/") THEN CookieDeleted(Unauthorized)
          ELSE CookieDeleted(Redirect("/login"))
        ELSE Allow
      ELSE IF isPublicRoute /\ Truthy(token) THEN
        IF verifyToken(String(token)) THEN Redirect("/dashboard")
        ELSE CookieDeleted(Allow)
      ELSE Allow

\* What becomes of a request: the middleware answers or lets it through when
\* config.matcher takes the path, and the request goes on to its route
\* untouched when it does not.
Routed(pathname, token) ==
  IF matcher(pathname)
  THEN [pathname |-> pathname, token |-> token, seen |-> TRUE]
         @@ middleware(pathname, token)
  ELSE [pathname |-> pathname, token |-> token, seen |-> FALSE]
         @@ Allow

\* The text that the route /api/datasets/[id] gets as params.id, "" when the
\* path is not of the route.
ParamsId(pathname) ==
  IF startsWith(pathname, "/api/datasets/")
       /\ ~HasChar(SubSeq(pathname, 15, Len(pathname)), "/")
  THEN SubSeq(pathname, 15, Len(pathname))
  ELSE ""

\* Request k arrives: a DELETE for a path of the API, a GET for a page.
Route(k, pathname, token) ==
  /\ http[k] = NotRouted
  /\ IF k = 1 THEN TRUE ELSE http[k - 1] # NotRouted
  /\ http' = [http EXCEPT ![k] = Routed(pathname, token)]
  /\ UNCHANGED <<files, req, DataSet, Product, DailyData, dataSetSeq, now, del, page, put, get, ai, analyzeHttp, auth, floatingPanels, inflight>>

\* DELETE request k, let through, reaches the handler of /api/datasets/[id].
RoutedDELETEFind(k) ==
  /\ http[k].next
  /\ ParamsId(http[k].pathname) # ""
  /\ DELETEFind(k, ParamsId(http[k].pathname))

\* A POST /api/ai/analyze arrives.
RouteAnalyze(token) ==
  /\ analyzeHttp' = Routed("/api/ai/analyze", token)
  /\ analyzeHttp' # analyzeHttp
  /\ UNCHANGED <<files, req, DataSet, Product, DailyData, dataSetSeq, now, del, page, put, get, ai, http, auth, floatingPanels, inflight>>

\* -------------------------------- GET /api/data/{dataSetId}, another client

\* One GET /api/data/{dataSetId} of another client, up to
\* prisma.dataSet.findUnique; get keeps the text of the id.  Without the
\* dataset the response is sent; with it the request goes on to
\* prisma.product.findMany.
GETDataRequest(dataSetIdStr) ==
  /\ get.at # "findMany"
  /\ get' = IF GETDataStatus(dataSetIdStr).status = 200
            THEN [dataSetId |-> dataSetIdStr, at |-> "findMany",
                  status |-> 0, error |-> "", response |-> NoDataResponse]
            ELSE [dataSetId |-> dataSetIdStr, at |-> "sent",
                  status |-> GETDataStatus(dataSetIdStr).status,
                  error |-> GETDataStatus(dataSetIdStr).error,
                  response |-> NoDataResponse]
  /\ get' # get
  /\ UNCHANGED <<files, req, DataSet, Product, DailyData, dataSetSeq, now, del, page, put, ai, http, analyzeHttp, auth,
       floatingPanels, inflight>>

\* The rest of the GET: prisma.product.findMany gives the products in the
\* order of order, and the response is sent.
GETDataProducts(order) ==
  /\ get.at = "findMany"
  /\ order \in ProductOrders(parseInt(get.dataSetId).v)
  /\ get' = [get EXCEPT !.at = "sent", !.status = 200,
               !.response = GETDataResponse(parseInt(get.dataSetId).v, order)]
  /\ UNCHANGED <<files, req, DataSet, Product, DailyData, dataSetSeq, now, del, page, put, ai, http, analyzeHttp, auth,
       floatingPanels, inflight>>

\* ------------------------------------------------- PUT /api/datasets/{id}

PutRequests == 1 .. MaxPuts

\* !name || typeof name !== 'string' || name.trim().length === 0, for the
\* name of the body: a string, a number or undefined
NameRequired(name) ==
  \/ ~Truthy(name)
  \/ name.t # "string"
  \/ Len(trim(name.s)) = 0

\* PUT up to the answer of prisma.dataSet.findUnique.
PUTFind(k, idStr, name) ==
  /\ put[k].pc = "new"
  /\ IF k = 1 THEN TRUE ELSE put[k - 1].pc # "new"
  /\ IF parseInt(idStr).nan THEN
       put' = [put EXCEPT
                 ![k].pc = "done",
                 ![k].response = ApiResponse(400, "Invalid dataset ID")]
     ELSE IF NameRequired(name) THEN
       put' = [put EXCEPT
                 ![k].pc = "done",
                 ![k].response = ApiResponse(400, "Dataset name is required")]
     ELSE IF parseInt(idStr).big THEN
       \* prisma.dataSet.findUnique throws and the catch answers
       put' = [put EXCEPT
                 ![k].pc = "done",
                 ![k].response = ApiResponse(500, "Failed to update dataset")]
     ELSE IF \A d \in Snapshot.DataSet : d.id # parseInt(idStr).v THEN
       put' = [put EXCEPT
                 ![k].pc = "done",
                 ![k].datasetId = parseInt(idStr).v,
                 ![k].response = ApiResponse(404, "Dataset not found")]
     ELSE
       put' = [put EXCEPT
                 ![k].pc = "found",
                 ![k].datasetId = parseInt(idStr).v,
                 ![k].name = trim(name.s)]
  /\ UNCHANGED <<files, req, DataSet, Product, DailyData, dataSetSeq, now, del, page, get, ai, http, analyzeHttp, auth,
       floatingPanels, inflight>>

\* The test of the name of PUT left out.
NoDuplicateCheck(datasetId, name) == FALSE

\* prisma.dataSet.findFirst({ where: { name: name.trim(), id: { not:
\* datasetId } } }) finds a dataset
duplicateDataset(datasetId, name) ==
  \E d \in Snapshot.DataSet : d.name = name /\ d.id # datasetId

\* PUT up to the answer of prisma.dataSet.findFirst.
PUTCheck(k) ==
  /\ put[k].pc = "found"
  /\ IF duplicateDataset(put[k].datasetId, put[k].name) THEN
       put' = [put EXCEPT
                 ![k].pc = "done",
                 ![k].response = ApiResponse(409, "Dataset name already exists")]
     ELSE
       put' = [put EXCEPT ![k].pc = "checked"]
  /\ UNCHANGED <<files, req, DataSet, Product, DailyData, dataSetSeq, now, del, page, get, ai, http, analyzeHttp, auth,
       floatingPanels, inflight>>

\* PUT from prisma.dataSet.update on; the update of a row that is no longer
\* there throws and the catch answers 500.
PUTUpdate(k) ==
  /\ put[k].pc = "checked"
  /\ IF \A d \in DataSet : d.id # put[k].datasetId THEN
       /\ put' = [put EXCEPT
                    ![k].pc = "done",
                    ![k].response = ApiResponse(500, "Failed to update dataset")]
       /\ UNCHANGED DataSet
     ELSE
       /\ DataSet' =
            {IF d.id = put[k].datasetId THEN [d EXCEPT !.name = put[k].name]
             ELSE d : d \in DataSet}
       /\ put' = [put EXCEPT
                    ![k].pc = "done",
                    ![k].response = ApiResponse(200, "")]
  /\ UNCHANGED <<files, req, Product, DailyData, dataSetSeq, now, del, page, get, ai, http, analyzeHttp, auth,
       floatingPanels, inflight>>

\* ------------------------------------- the requests of DatasetManager

\* fetch(`/api/datasets/${datasetId}`, { method: 'DELETE' }) of handleDelete,
\* sent in the render in which selectedId was selectedId; the server has
\* not taken it yet (k is 0).
DeleteRequest(datasetId, selectedId) ==
  [url |-> "/api/datasets/[id]", by |-> "handleDelete",
   selectedSetId |-> selectedId, at |-> "fetch", datasets |-> <<>>,
   response |-> NoDataResponse,
   body |-> [k |-> 0, datasetId |-> datasetId, name |-> ""]]

\* fetch(`/api/datasets/${editingId}`, { method: 'PUT', ... }) of
\* handleEditSave with the body {name}, which the server takes as its PUT
\* request k.
EditRequest(k, editingId, name, selectedId) ==
  [url |-> "/api/datasets/[id]", by |-> "handleEditSave",
   selectedSetId |-> selectedId, at |-> "fetch", datasets |-> <<>>,
   response |-> NoDataResponse,
   body |-> [k |-> k, datasetId |-> editingId, name |-> name]]

\* const selectedDataset = datasets.find(d => d.id === selectedId): the
\* positions of the datasets of that id, the first of which is found.
selectedDataset(pg) ==
  {i \in DOMAIN pg.dataSets : pg.dataSets[i].id = pg.selectedSetId}

\* {selectedDataset && !editingId && ...}: Edit Name and Delete are rendered.
ActionButtons(pg) ==
  /\ pg.dataSets # <<>>
  /\ selectedDataset(pg) # {}
  /\ pg.editingId = 0

\* {editingId ? ...}: the input of the name, Save and Cancel are rendered.
EditingControls(pg) == pg.dataSets # <<>> /\ pg.editingId # 0

\* Edit Name: handleEditStart(selectedDataset).
handleEditStart ==
  /\ ActionButtons(page)
  /\ page' =
       [page EXCEPT
          !.editingId = page.selectedSetId,
          !.editingName =
            page.dataSets[CHOOSE i \in selectedDataset(page) :
                            \A j \in selectedDataset(page) : i <= j].name]
  /\ UNCHANGED <<files, req, DataSet, Product, DailyData, dataSetSeq, now, del, api, auth, floatingPanels, inflight>>

\* The input of the name, disabled while isUpdating: setEditingName of
\* another text.
setEditingName(text) ==
  /\ EditingControls(page)
  /\ ~page.isUpdating
  /\ text # page.editingName
  /\ page' = [page EXCEPT !.editingName = text]
  /\ UNCHANGED <<files, req, DataSet, Product, DailyData, dataSetSeq, now, del, api, auth, floatingPanels, inflight>>

\* Cancel, disabled while isUpdating.
handleEditCancel ==
  /\ EditingControls(page)
  /\ ~page.isUpdating
  /\ page' = [page EXCEPT !.editingId = 0, !.editingName = ""]
  /\ UNCHANGED <<files, req, DataSet, Product, DailyData, dataSetSeq, now, del, api, auth, floatingPanels, inflight>>

\* The DELETE requests that the page has sent and no handler has taken.
DeletesOnTheWay ==
  {i \in DOMAIN inflight :
     inflight[i].by = "handleDelete" /\ inflight[i].at = "fetch"}

\* Delete, rendered for the selected dataset and disabled while isDeleting
\* is its id: handleDelete(selectedDataset.id, selectedDataset.name),
\* confirmed, up to its fetch.
handleDelete ==
  /\ ActionButtons(page)
  /\ page.isDeleting # page.selectedSetId
  /\ Cardinality({k \in DeleteRequests : del[k].pc # "new"})
       + Cardinality(DeletesOnTheWay) < MaxDeletes
  /\ Len(inflight) < MaxInflight
  /\ page' = [page EXCEPT !.isDeleting = page.selectedSetId]
  /\ inflight' = Append(inflight,
                        DeleteRequest(page.selectedSetId, page.selectedSetId))
  /\ UNCHANGED <<files, req, DataSet, Product, DailyData, dataSetSeq, now, del, api, auth, floatingPanels>>

\* The DELETE of the i-th request in flight reaches its handler, as the
\* next DELETE request of the server, k; the requests on the way arrive in
\* any order.
RequestedDELETEFind(i) ==
  /\ i \in DeletesOnTheWay
  /\ \E k \in DeleteRequests :
       /\ del[k].pc = "new"
       /\ IF k = 1 THEN TRUE ELSE del[k - 1].pc # "new"
       /\ del' = DELETEFound(k, ToString(inflight[i].body.datasetId))
       /\ inflight' = [inflight EXCEPT ![i].at = "handler", ![i].body.k = k]
  /\ UNCHANGED <<files, req, DataSet, Product, DailyData, dataSetSeq, now, page, api, auth, floatingPanels>>

\* The rest of handleDelete for the i-th request in flight, once the
\* response is in: if (response.ok) onDatasetUpdate(), and
\* onDatasetSelect(null) if the deleted dataset was the selected one of
\* that render, which runs the effects on selectedSetId unless it is null;
\* finally setIsDeleting(null).
handleDeleteResolved(i) ==
  /\ i \in DOMAIN inflight
  /\ inflight[i].by = "handleDelete"
  /\ inflight[i].at = "handler"
  /\ del[inflight[i].body.k].pc = "done"
  /\ LET updated == onDatasetUpdate(page, inflight[i].selectedSetId)
         clears == /\ inflight[i].selectedSetId = inflight[i].body.datasetId
                   /\ page.selectedSetId # 0
     IN  IF del[inflight[i].body.k].response.status = 200
         THEN /\ page' = [(IF clears THEN Selected(updated.page, 0)
                           ELSE updated.page)
                            EXCEPT !.isDeleting = 0]
              /\ inflight' = RemoveAt(inflight, i) \o updated.requests
                               \o (IF clears THEN EffectRequests(0) ELSE <<>>)
         ELSE /\ page' = [page EXCEPT !.isDeleting = 0]
              /\ inflight' = RemoveAt(inflight, i)
  /\ Len(inflight') <= MaxInflight
  /\ floatingPanels' = PanelsOn(page')
  /\ UNCHANGED <<files, req, DataSet, Product, DailyData, dataSetSeq, now, del, api, auth>>

\* Save, disabled while isUpdating and for a name that trims to nothing:
\* handleEditSave up to its fetch, for the dataset that is edited and the
\* text of the input; setIsUpdating(true), and the body holds
\* editingName.trim().  (No PUT of the page is in flight while Save is
\* enabled, so that the server takes this one as its next PUT request, k.)
handleEditSave(k) ==
  /\ EditingControls(page)
  /\ ~page.isUpdating
  /\ trim(page.editingName) # ""
  /\ put[k].pc = "new"
  /\ IF k = 1 THEN TRUE ELSE put[k - 1].pc # "new"
  /\ Len(inflight) < MaxInflight
  /\ page' = [page EXCEPT !.isUpdating = TRUE]
  /\ inflight' = Append(inflight,
                        EditRequest(k, page.editingId, trim(page.editingName),
                                    page.selectedSetId))
  /\ UNCHANGED <<files, req, DataSet, Product, DailyData, dataSetSeq, now, del, api, auth, floatingPanels>>

\* The PUT of the i-th request in flight reaches its handler.
RequestedPUTFind(i) ==
  /\ i \in DOMAIN inflight
  /\ inflight[i].by = "handleEditSave"
  /\ PUTFind(inflight[i].body.k, ToString(inflight[i].body.datasetId),
             Str(inflight[i].body.name))

\* The rest of handleEditSave for the i-th request in flight, once the
\* response is in: if (response.ok) onDatasetUpdate(), setEditingId(null)
\* and setEditingName(''); finally setIsUpdating(false).
handleEditSaveResolved(i) ==
  /\ i \in DOMAIN inflight
  /\ inflight[i].by = "handleEditSave"
  /\ put[inflight[i].body.k].pc = "done"
  /\ LET updated == onDatasetUpdate(page, inflight[i].selectedSetId)
     IN  IF put[inflight[i].body.k].response.status = 200
         THEN /\ page' = [updated.page EXCEPT !.editingId = 0,
                                              !.editingName = "",
                                              !.isUpdating = FALSE]
              /\ inflight' = RemoveAt(inflight, i) \o updated.requests
         ELSE /\ page' = [page EXCEPT !.isUpdating = FALSE]
              /\ inflight' = RemoveAt(inflight, i)
  /\ Len(inflight') <= MaxInflight
  /\ floatingPanels' = PanelsOn(page')
  /\ UNCHANGED <<files, req, DataSet, Product, DailyData, dataSetSeq, now, del, api, auth>>

\* -------------------------------------------------- POST /api/ai/analyze

\* What model.generateContent may do: give an answer, or throw.
GeminiOutcomes == {"answer", "throws"}

\* A text of a body with characters that no string of this module holds:
\* the tuple of its UTF-16 code units, a unit of ASCII the character itself
\* and any other unit its name U+XXXX, of four hexadecimal digits in upper
\* case (a character beyond U+FFFF is the two units of its surrogate pair).
Text(units) == [t |-> "text", units |-> units]

\* The code units of String(c).
Units(c) ==
  IF c.t = "text" THEN c.units ELSE [i \in 1 .. Len(c.s) |-> Ch(c.s, i)]

\* !c is false for a field c of the body
Given(c) == IF c.t = "text" THEN c.units # <<>> ELSE Truthy(c)

\* The white space and line terminators that trim and parseInt skip, as
\* characters and as names.
UnitWhiteSpace ==
  WhiteSpace \cup
    {"U+00A0", "U+1680", "U+2000", "U+2001", "U+2002", "U+2003", "U+2004",
     "U+2005", "U+2006", "U+2007", "U+2008", "U+2009", "U+200A", "U+2028",
     "U+2029", "U+202F", "U+205F", "U+3000", "U+FEFF"}

RECURSIVE TrimStartUnits(_)
TrimStartUnits(units) ==
  IF units # <<>> /\ Head(units) \in UnitWhiteSpace
    THEN TrimStartUnits(Tail(units)) ELSE units

RECURSIVE TrimEndUnits(_)
TrimEndUnits(units) ==
  IF units # <<>> /\ units[Len(units)] \in UnitWhiteSpace
    THEN TrimEndUnits(SubSeq(units, 1, Len(units) - 1)) ELSE units

\* The characters of the units up to the first unit that is a name: no
\* digit, sign or letter that parseInt reads is beyond it.
RECURSIVE UnitsRead(_)
UnitsRead(units) ==
  IF units = <<>> \/ Len(Head(units)) # 1 THEN ""
  ELSE Head(units) \o UnitsRead(Tail(units))

\* The string of which parseInt(dataSetId) reads the integer: String(
\* dataSetId) past its leading white space.
IdString(dataSetId) ==
  IF dataSetId.t = "text" THEN UnitsRead(TrimStartUnits(dataSetId.units))
  ELSE String(dataSetId)

\* The response of POST /api/ai/analyze that is sent before the call of
\* model.generateContent, for the dataSetId and the userQuestion of the
\* body, each a string, a number or undefined; NoApiResponse when the
\* dataset is found and the handler goes on to the call.
AnalyzeStatus(dataSetId, userQuestion) ==
  IF ~Given(dataSetId) \/ ~Given(userQuestion)
  THEN ApiResponse(400, "Missing dataset ID or user question")
  ELSE IF parseInt(IdString(dataSetId)).nan \/ parseInt(IdString(dataSetId)).big
  THEN \* prisma.dataSet.findUnique throws for NaN and for an id that is
       \* not of int4, and the inner catch answers
       ApiResponse(500, "Failed to fetch dataset from database")
  ELSE IF \A d \in Snapshot.DataSet : d.id # parseInt(IdString(dataSetId)).v
  THEN ApiResponse(404, "Dataset not found")
  ELSE NoApiResponse

\* The four replacements of clean: none gives a character that a later one
\* replaces, so the four passes are one.
RECURSIVE Replaced(_)
Replaced(units) ==
  IF units = <<>> THEN <<>>
  ELSE (CASE Head(units) \in {"U+2018", "U+2019"} -> <<"'">>
          [] Head(units) \in {"U+201C", "U+201D"} -> <<"\"">>
          [] Head(units) \in {"U+2013", "U+2014"} -> <<"-">>
          [] Head(units) = "U+2026" -> <<".", ".", ".">>
          [] OTHER -> <<Head(units)>>)
         \o Replaced(Tail(units))

\* clean(str), the code units of str given
clean(units) == TrimEndUnits(TrimStartUnits(Replaced(units)))

\* POST /api/ai/analyze up to the call of model.generateContent; ai keeps
\* the body too, whether a chartData came with it (the handler does not
\* read it), and the code units of the question as the prompt puts it to
\* the model.
POSTAnalyze(dataSetId, userQuestion, withChartData) ==
  /\ ai.at # "generateContent"
  /\ ai' = [at |-> IF AnalyzeStatus(dataSetId, userQuestion) = NoApiResponse
                   THEN "generateContent" ELSE "sent",
            status |-> AnalyzeStatus(dataSetId, userQuestion).status,
            error |-> AnalyzeStatus(dataSetId, userQuestion).error,
            dataSetId |-> dataSetId, userQuestion |-> userQuestion,
            chartData |-> withChartData,
            asked |->
              IF AnalyzeStatus(dataSetId, userQuestion) = NoApiResponse
              THEN clean(Units(userQuestion)) ELSE <<>>]
  /\ ai' # ai
  /\ UNCHANGED <<files, req, DataSet, Product, DailyData, dataSetSeq, now, del, page, put, get, http, analyzeHttp, auth,
       floatingPanels, inflight>>

\* POST /api/ai/analyze from the answer of model.generateContent on: the
\* response tells of the dataset as the handler read it before the call;
\* the inner catch takes the error of generateContent.
POSTAnalyzeAnswer(gemini) ==
  /\ ai.at = "generateContent"
  /\ ai' = [ai EXCEPT
              !.at = "sent",
              !.status = IF gemini = "throws" THEN 500 ELSE 200,
              !.error = IF gemini = "throws"
                        THEN "Failed to fetch dataset from database" ELSE ""]
  /\ UNCHANGED <<files, req, DataSet, Product, DailyData, dataSetSeq, now, del, page, put, get, http, analyzeHttp, auth,
       floatingPanels, inflight>>

\* The POST /api/ai/analyze, let through, reaches the handler.
RoutedPOSTAnalyze(dataSetId, userQuestion, withChartData) ==
  /\ analyzeHttp.next
  /\ POSTAnalyze(dataSetId, userQuestion, withChartData)

\* ------------------------------------------------ POST /api/auth/register

Registrations == 1 .. MaxRegistrations

\* hashPassword(password): a bcrypt hash of 12 rounds, which the model keeps
\* as the prefix of such a hash before the password it was made of.
hashPassword(password) == "$2b$12$" \o password

\* prisma.user.findUnique({ where: { username } }) finds a user
existingUser(username) == \E u \in User : u.username = username

\* A table User without the unique index.
NoUsernameKey(username) == FALSE

\* User_username_key: an insert of the username violates the unique index
User_username_key(username) == \E u \in User : u.username = username

\* POST /api/auth/register up to the answer of prisma.user.findUnique.  The
\* fields of the body are what request.json() gives: a string, a number, or
\* undefined for a field that the body lacks.  A number has no toLowerCase,
\* so the test of the reference code throws a TypeError, and the catch
\* answers 500; the length of a number is undefined, and undefined < 6 is
\* false; prisma.user.findUnique rejects a username that is not a string
\* (the field is a String), and the catch answers 500.
RegisterCheck(k, username, password, referenceCode) ==
  /\ reg[k].pc = "new"
  /\ IF k = 1 THEN TRUE ELSE reg[k - 1].pc # "new"
  /\ LET body == [reg[k] EXCEPT !.username = username,
                                !.password = password,
                                !.referenceCode = referenceCode]
         answer(status, error) ==
           [body EXCEPT !.pc = "done", !.response = ApiResponse(status, error)]
     IN
     IF ~Truthy(username) \/ ~Truthy(password) \/ ~Truthy(referenceCode) THEN
       reg' = [reg EXCEPT
                 ![k] = answer(400, "Username, password, and reference code are required")]
     ELSE IF referenceCode.t # "string" THEN
       reg' = [reg EXCEPT ![k] = answer(500, "Internal server error")]
     ELSE IF Lower(String(referenceCode)) # "aibuild" THEN
       reg' = [reg EXCEPT ![k] = answer(403, "Invalid reference code")]
     ELSE IF password.t = "string" /\ Len(String(password)) < 6 THEN
       reg' = [reg EXCEPT
                 ![k] = answer(400, "Password must be at least 6 characters")]
     ELSE IF username.t # "string" THEN
       reg' = [reg EXCEPT ![k] = answer(500, "Internal server error")]
     ELSE IF existingUser(String(username)) THEN
       reg' = [reg EXCEPT ![k] = answer(409, "Username already exists")]
     ELSE
       reg' = [reg EXCEPT ![k] = [body EXCEPT !.pc = "checked"]]
  /\ UNCHANGED <<files, req, DataSet, Product, DailyData, dataSetSeq, now, del, page, api, User, floatingPanels, inflight>>

\* POST /api/auth/register from hashPassword on; the ids of the users are
\* 1, 2, ... (no user is ever deleted).  bcrypt.hash rejects a password that
\* is not a string, and prisma.user.create rejects a username that a user
\* has: the catch answers 500 to both, and no user is created.
RegisterCreate(k) ==
  /\ reg[k].pc = "checked"
  /\ IF reg[k].password.t # "string"
          \/ User_username_key(String(reg[k].username)) THEN
       /\ reg' = [reg EXCEPT
                    ![k].pc = "done",
                    ![k].response = ApiResponse(500, "Internal server error")]
       /\ UNCHANGED User
     ELSE
       /\ User' = User \cup
            {[id |-> Cardinality(User) + 1,
              username |-> String(reg[k].username),
              password |-> hashPassword(String(reg[k].password))]}
       /\ reg' = [reg EXCEPT
                    ![k].pc = "done",
                    ![k].response = ApiResponse(201, "")]
  /\ UNCHANGED <<files, req, DataSet, Product, DailyData, dataSetSeq, now, del, page, api, floatingPanels, inflight>>

\* ------------------------------------------------------------ the workbooks

HeaderRow ==
  <<Str("ID"), Str("Product Name"), Str("Opening Inventory"),
    Str("Procurement Qty (Day 1)"), Str("Procurement Price (Day 1)"),
    Str("Sales Qty (Day 1)"), Str("Sales Price (Day 1)")>>

DataRow(id, name) ==
  <<id, Str(name), Number("10"), Number("5"), Number("2.5"), Number("3"),
    Number("4")>>

\* Two rows with the same ID and the same name.
WbSameId ==
  Workbook("same.xlsx",
           <<HeaderRow, DataRow(Number("1"), "X"), DataRow(Number("1"), "X")>>)

\* No day column.
WbNoDays ==
  Workbook("nodays.xlsx",
           <<<<Str("ID"), Str("Product Name"), Str("Opening Inventory")>>,
             <<Number("1"), Str("X"), Number("10")>>>>)

\* A sheet without any row.
WbEmpty == Workbook("empty.xlsx", <<>>)

Workbooks == {WbSameId, WbNoDays}

\* Sequences of the elements of S of the lengths lo .. hi.
SeqsOf(S, lo, hi) == UNION {[1 .. n -> S] : n \in lo .. hi}

\* -- workbooks of product names

\* The most data rows of a workbook of names.
MaxRows == 3

\* The digits of 2^53.
TwoPow53 == "9007199254740992"

BigName == "X(" \o TwoPow53 \o ")"

\* The names without a literal suffix.
PlainNames == {"X", "Y"}

NamePool == PlainNames \cup {"X(2)", "X(5)", BigName}

\* One data row for each name, the IDs of the rows being 1, 2, ..., with the
\* sales of one day.
NameWorkbook(names) ==
  Workbook("names.xlsx",
           <<<<Str("ID"), Str("Product Name"), Str("Sales Qty (Day 1)")>>>> \o
             [i \in 1 .. Len(names) |->
                <<Number(ToString(i)), Str(names[i]), Number("3")>>])

NameWorkbooks == {NameWorkbook(ns) : ns \in SeqsOf(NamePool, 1, MaxRows)}

\* -- workbooks of day headers

\* The most day headers of a workbook of headers.
MaxHeaders == 2

\* A header text, and the day index N with which it matches one of the four
\* templates (-1: it matches none).
HeaderCases ==
  {[h |-> "Procurement Qty (Day 1)", n |-> 1],
   [h |-> "procurement price (day 2)", n |-> 2],
   [h |-> "SALES QTY (DAY 3)", n |-> 3],
   [h |-> " Sales Price (Day 5) ", n |-> 5],
   [h |-> "Sales Price (Day 10)", n |-> 10],
   [h |-> "Est. Sales Qty (Day 4) net", n |-> 4],
   [h |-> "Sales Qty (Day 0)", n |-> 0],
   [h |-> "Total (Day 9)", n |-> -1],
   [h |-> "Sales Qty Day 7", n |-> -1]}

HeaderWorkbook(cases) ==
  Workbook("headers.xlsx",
           <<<<Str("ID"), Str("Product Name"), Str("Opening Inventory")>>
               \o [i \in 1 .. Len(cases) |-> Str(cases[i].h)],
             <<Number("1"), Str("X"), Number("10"), Number("5")>>>>)

HeaderWorkbooks ==
  {HeaderWorkbook(cs) : cs \in SeqsOf(HeaderCases, 0, MaxHeaders)}
    \cup {WbEmpty, NoFile}

\* -- workbooks of numeric cells

\* The most days of a workbook of cells.
MaxDays == 3

\* A cell, the integer parseInt(String(cell)) || 0 is to give for it and the
\* decimal parseFloat(String(cell)) || 0 is to give for it.
CellCases ==
  {[cell |-> Number("10"), int |-> 10, dec |-> Double(10)],
   [cell |-> Number("5"), int |-> 5, dec |-> Double(5)],
   [cell |-> Number("3"), int |-> 3, dec |-> Double(3)],
   [cell |-> Number("20"), int |-> 20, dec |-> Double(20)],
   [cell |-> Number("-4"), int |-> -4, dec |-> Double(-4)],
   [cell |-> Number("2.5"), int |-> 2, dec |-> Dyadic(5, 1)],
   [cell |-> Str("0.25"), int |-> 0, dec |-> Dyadic(1, 2)],
   [cell |-> Number("0.1"), int |-> 0,
    dec |-> Finite(FALSE, <<19661, 6553, 13107, 102>>, -55)],
   [cell |-> Str("Infinity"), int |-> 0, dec |-> Infinity(FALSE)],
   [cell |-> Str("7 units"), int |-> 7, dec |-> Double(7)],
   [cell |-> Str("n/a"), int |-> 0, dec |-> Double(0)],
   [cell |-> Undefined, int |-> 0, dec |-> Double(0)]}

OpeningCells == {Number("10"), Number("-4"), Str("n/a"), Undefined}
ProcurementQtyCells == {Number("5"), Str("7 units"), Undefined}
ProcurementPriceCells == {Number("2.5"), Number("0.1"), Str("n/a")}
SalesQtyCells == {Number("3"), Number("20")}
SalesPriceCells == {Number("10"), Str("0.25"), Str("Infinity")}
LastDayCells == {Number("3"), Number("20")}

\* One product with the four columns of day 1 and, for lastDay > 1, the
\* column of the sales quantity of day lastDay alone.
CellWorkbook(lastDay, opening, pq, pp, sq, sp, last) ==
  Workbook("cells.xlsx",
    <<HeaderRow \o (IF lastDay > 1
                    THEN <<Str(dayKey("Sales Qty", lastDay))>> ELSE <<>>),
      <<Number("1"), Str("X"), opening, pq, pp, sq, sp>>
        \o (IF lastDay > 1 THEN <<last>> ELSE <<>>)>>)

CellWorkbooks ==
  {CellWorkbook(d, o, pq, pp, sq, sp, l) :
     d \in 1 .. MaxDays, o \in OpeningCells, pq \in ProcurementQtyCells,
     pp \in ProcurementPriceCells, sq \in SalesQtyCells,
     sp \in SalesPriceCells, l \in LastDayCells}

\* -- workbooks of rows with and without an ID and a name

\* The i-th data row of a workbook of rows, of each kind, and whether both
\* its ID cell and its Product Name cell hold a non-empty value.
RowCases(i) ==
  {[row |-> <<Number(ToString(i)), Str("P"), Number("3")>>, full |-> TRUE],
   [row |-> <<Number("0"), Str("Z"), Number("3")>>, full |-> TRUE],
   [row |-> <<Number(ToString(i)), Str(""), Number("3")>>, full |-> FALSE],
   [row |-> <<>>, full |-> FALSE]}

RowWorkbook(rows) ==
  Workbook("rows.xlsx",
           <<<<Str("ID"), Str("Product Name"), Str("Sales Qty (Day 1)")>>>>
             \o rows)

\* The choices of one case for each of n rows.
RowChoices(n) ==
  {c \in [1 .. n -> UNION {RowCases(i) : i \in 1 .. n}] :
     \A i \in 1 .. n : c[i] \in RowCases(i)}

RowWorkbooks ==
  UNION {{RowWorkbook([i \in 1 .. n |-> c[i].row]) : c \in RowChoices(n)} :
           n \in 1 .. MaxRows}

\* ------------------------------------------------------ the specifications

\* Workbooks of integer cells at the ends of int4: one product with an
\* opening inventory and the two quantities of day 1.
IntegerOpeningCells ==
  {Number("10"), Number("2147483647"), Number("3000000000"), Str("n/a"),
   Undefined}

IntegerProcurementCells == {Number("0"), Number("1"), Str("-2147483649")}

IntegerSalesCells == {Number("0"), Number("5"), Str("0x80000000")}

IntegerWorkbook(opening, pq, sq) ==
  Workbook("integers.xlsx",
    <<<<Str("ID"), Str("Product Name"), Str("Opening Inventory"),
        Str("Procurement Qty (Day 1)"), Str("Sales Qty (Day 1)")>>,
      <<Number("1"), Str("X"), opening, pq, sq>>>>)

\* One product whose procurement quantity of day 1 is outside int4 and
\* whose procurement amount of the day is no finite number.
IntegerAmountWorkbook ==
  Workbook("integers.xlsx",
    <<HeaderRow,
      <<Number("1"), Str("A"), Number("0"), Str("3000000000"), Str("1e308"),
        Number("0"), Number("0")>>>>)

IntegerWorkbooks ==
  {IntegerWorkbook(opening, pq, sq) :
     opening \in IntegerOpeningCells,
     pq \in IntegerProcurementCells,
     sq \in IntegerSalesCells}
    \cup {IntegerAmountWorkbook}

\* -- workbooks for the charts

\* The header row of a workbook whose last day is lastDay.
ChartHeaderRow(lastDay) ==
  HeaderRow \o (IF lastDay > 1 THEN <<Str(dayKey("Sales Qty", lastDay))>>
                ELSE <<>>)

\* A row of a product: the columns of day 1 and the sales of the last day.
ChartRow(id, name, opening, pq, pp, sq, sp) ==
  <<Number(id), Str(name), Number(opening), Number(pq), Number(pp),
    Number(sq), Number(sp), Number("1")>>

ChartRowX == ChartRow("1", "X", "10", "5", "2.5", "3", "4")

ChartRowY == ChartRow("2", "Y", "7", "2", "1.5", "4", "0.25")

\* A row of the product named __proto__.
ChartRowProto == ChartRow("2", "__proto__", "7", "2", "1.5", "4", "0.25")

ChartRowBig == ChartRow("2", BigName, "20", "1", "0.5", "6", "3")

ChartRowX3 == ChartRow("3", "X", "1", "8", "2", "9", "1.25")

\* A row whose sales price of day 1 is the text 1e308.
ChartRowHuge(id, name) ==
  <<Number(id), Str(name), Number("10"), Number("5"), Number("2.5"),
    Number("1"), Str("1e308"), Number("1")>>

\* One product; two products; three products, two of which get the same
\* name; two products over eleven days; two products whose sales amounts
\* of day 1 are finite and have no finite sum.
ChartWorkbooks ==
  {Workbook("chart.xlsx", <<ChartHeaderRow(1), ChartRowX>>),
   Workbook("chart.xlsx", <<ChartHeaderRow(1), ChartRowX, ChartRowY>>),
   Workbook("chart.xlsx",
            <<ChartHeaderRow(1), ChartRowX, ChartRowBig, ChartRowX3>>),
   Workbook("chart.xlsx", <<ChartHeaderRow(10), ChartRowX, ChartRowY>>),
   Workbook("chart.xlsx",
            <<ChartHeaderRow(1), ChartRowHuge("1", "X"), ChartRowHuge("2", "Y")>>)}

\* -- workbooks for the deletions

DeleteWorkbooks ==
  {Workbook("delete.xlsx", <<ChartHeaderRow(1), ChartRowX>>),
   Workbook("delete.xlsx", <<ChartHeaderRow(1), ChartRowX, ChartRowY>>)}

InitWith(fs) ==
  /\ files = fs
  /\ req = [r \in DOMAIN fs |-> NewRequest]
  /\ DataSet = {}
  /\ Product = {}
  /\ DailyData = {}
  /\ dataSetSeq = 0
  /\ now = 0
  /\ del = [k \in 1 .. MaxDeletes |-> NewDelete]
  /\ page = NewPage
  /\ put = [k \in 1 .. MaxPuts |-> NewPut]
  /\ get = NoGet
  /\ ai = NoAnalysis
  /\ http = [k \in 1 .. MaxDeletes |-> NotRouted]
  /\ analyzeHttp = NotRouted
  /\ User = {}
  /\ reg = [k \in 1 .. MaxRegistrations |-> NewRegistration]
  /\ floatingPanels = NoPanels
  /\ inflight = <<DatasetsRequest(0)>>

Next ==
  \/ \E r \in Requests : UploadBegin(r)
  \/ \E r \in Requests : UploadRowName(r)
  \/ \E r \in Requests : UploadRowCreate(r)
  \/ \E r \in Requests : UploadCommit(r)
  \/ Tick

\* MaxUploads concurrent uploads over an empty store.
Init == \E fs \in [1 .. MaxUploads -> Workbooks] : InitWith(fs)

Spec == Init /\ [][Next]_vars

\* Two concurrent uploads over an empty store.
InitConcurrent == \E w1, w2 \in Workbooks : InitWith(<<w1, w2>>)

\* The uploads through the handler with the fixed loop over the days 1 to 3.
NextThreeDays ==
  \/ \E r \in Requests : UploadBeginThreeDays(r)
  \/ \E r \in Requests : UploadRowName(r)
  \/ \E r \in Requests : UploadRowCreate(r)
  \/ \E r \in Requests : UploadCommit(r)
  \/ Tick

SpecThreeDays == Init /\ [][NextThreeDays]_vars

\* The orders of the products for the GET that is at findMany.
GetOrders ==
  IF get.at = "findMany" THEN ProductOrders(parseInt(get.dataSetId).v) ELSE {}

\* The ids of the reads that run among the two uploads.
ConcurrentIds == {"1", "2"}

\* The steps of the uploads and of the reads of another client, in every
\* order.
NextConcurrent ==
  \/ \E r \in Requests : UploadBegin(r)
  \/ \E r \in Requests : UploadRowName(r)
  \/ \E r \in Requests : UploadRowCreate(r)
  \/ \E r \in Requests : UploadCommit(r)
  \/ \E idStr \in ConcurrentIds : GETDataRequest(idStr)
  \/ \E order \in GetOrders : GETDataProducts(order)

SpecConcurrent == InitConcurrent /\ [][NextConcurrent]_vars

\* One upload of a workbook of product names.
InitNames == \E w \in NameWorkbooks : InitWith(<<w>>)

\* The steps of the upload; the names do not depend on the clock, which
\* stands still here.
NextNames ==
  \/ \E r \in Requests : UploadBegin(r)
  \/ \E r \in Requests : UploadRowName(r)
  \/ \E r \in Requests : UploadRowCreate(r)
  \/ \E r \in Requests : UploadCommit(r)

SpecNames == InitNames /\ [][NextNames]_vars

\* One upload of a workbook of day headers.
InitHeaders == \E w \in HeaderWorkbooks : InitWith(<<w>>)

SpecHeaders == InitHeaders /\ [][Next]_vars

\* One upload of a workbook of numeric cells.
InitCells == \E w \in CellWorkbooks : InitWith(<<w>>)

SpecCells == InitCells /\ [][Next]_vars

\* One upload of a workbook of rows with and without an ID and a name.
InitRows == \E w \in RowWorkbooks : InitWith(<<w>>)

SpecRows == InitRows /\ [][Next]_vars

\* One upload of a workbook of integer cells at the ends of int4.
InitIntegers == \E w \in IntegerWorkbooks : InitWith(<<w>>)

SpecIntegers == InitIntegers /\ [][Next]_vars

\* One upload of a workbook for the charts, and the dashboard page.
InitCharts == \E w \in ChartWorkbooks : InitWith(<<w>>)

NextCharts ==
  \/ \E r \in Requests : UploadBegin(r)
  \/ \E r \in Requests : UploadRowName(r)
  \/ \E r \in Requests : UploadRowCreate(r)
  \/ \E r \in Requests : UploadCommit(r)
  \/ reload
  \/ \E i \in DOMAIN inflight : \E order \in DataSetOrders :
       GETDatasetsFindMany(i, order)
  \/ \E i \in DOMAIN inflight : loadDatasetsResolved(i)
  \/ \E i \in DOMAIN inflight : GETDataFindUnique(i)
  \/ \E i \in DOMAIN inflight :
       \E order \in ProductOrders(inflight[i].selectedSetId) :
         GETDataFindMany(i, order)
  \/ \E i \in DOMAIN inflight : fetchResolved(i)
  \/ \E tab \in RightPanelTabs : setRightPanelTab(tab)
  \/ \E i \in DOMAIN page.dataResponse.rawProducts :
       handleProductToggle(page.dataResponse.rawProducts[i].id)
  \/ handleSelectAll
  \/ \E value \in DayInputs : handleStartDayChange(value)
  \/ \E value \in DayInputs : handleEndDayChange(value)
  \/ clearAll

SpecCharts == InitCharts /\ [][NextCharts]_vars

\* Two concurrent uploads and MaxDeletes concurrent DELETE requests.
InitDelete == \E w1, w2 \in DeleteWorkbooks : InitWith(<<w1, w2>>)

NextDelete ==
  \/ \E r \in Requests : UploadBegin(r)
  \/ \E r \in Requests : UploadRowName(r)
  \/ \E r \in Requests : UploadRowCreate(r)
  \/ \E r \in Requests : UploadCommit(r)
  \/ \E k \in DeleteRequests : \E idStr \in DeleteIds : DELETEFind(k, idStr)
  \/ \E k \in DeleteRequests : DELETEDataSet(k)

SpecDelete == InitDelete /\ [][NextDelete]_vars

\* One upload, and one request at a time of each of the four endpoints that
\* take a dataset id.
InitRequests ==
  InitWith(<<Workbook("delete.xlsx", <<ChartHeaderRow(1), ChartRowX>>)>>)

\* The ids of the requests: of the first dataset, of no dataset, and beyond
\* a 32-bit integer.
RequestIds == {"1", "7", "3000000000"}

\* The names of the bodies of PUT.
RequestNames == {Str("renamed"), Str(" ")}

\* The dataSetId of the bodies of POST /api/ai/analyze.
AnalyzeIds == {Number("1"), Number("7"), Str("3000000000")}

\* The userQuestion of the bodies of POST /api/ai/analyze.
AnalyzeQuestions == {Str("Which product sells best?")}

NextRequests ==
  \/ \E r \in Requests : UploadBegin(r)
  \/ \E r \in Requests : UploadRowName(r)
  \/ \E r \in Requests : UploadRowCreate(r)
  \/ \E r \in Requests : UploadCommit(r)
  \/ \E idStr \in RequestIds : GETDataRequest(idStr)
  \/ \E order \in GetOrders : GETDataProducts(order)
  \/ \E idStr \in RequestIds : \E name \in RequestNames : PUTFind(1, idStr, name)
  \/ PUTCheck(1)
  \/ PUTUpdate(1)
  \/ \E idStr \in RequestIds : DELETEFind(1, idStr)
  \/ DELETEDataSet(1)
  \/ \E dataSetId \in AnalyzeIds : \E userQuestion \in AnalyzeQuestions :
       POSTAnalyze(dataSetId, userQuestion, FALSE)
  \/ \E gemini \in GeminiOutcomes : POSTAnalyzeAnswer(gemini)

SpecRequests == InitRequests /\ [][NextRequests]_vars

\* One upload, and requests that pass the middleware or go round it.
InitAuth ==
  InitWith(<<Workbook("delete.xlsx", <<ChartHeaderRow(1), ChartRowX>>)>>)

\* The paths of the requests.
Pathnames ==
  {"/api/datasets/1", "/api/datasets/1.0", "/dashboard", "/dashboard/a:b%20c",
   "/login"}

NextAuth ==
  \/ \E r \in Requests : UploadBegin(r)
  \/ \E r \in Requests : UploadRowName(r)
  \/ \E r \in Requests : UploadRowCreate(r)
  \/ \E r \in Requests : UploadCommit(r)
  \/ \E k \in DeleteRequests : \E pathname \in Pathnames : \E token \in Tokens :
       Route(k, pathname, token)
  \/ \E k \in DeleteRequests : RoutedDELETEFind(k)
  \/ \E k \in DeleteRequests : DELETEDataSet(k)

SpecAuth == InitAuth /\ [][NextAuth]_vars

\* One upload, and requests to /api/ai/analyze.
NextAnalyzeAuth ==
  \/ \E r \in Requests : UploadBegin(r)
  \/ \E r \in Requests : UploadRowName(r)
  \/ \E r \in Requests : UploadRowCreate(r)
  \/ \E r \in Requests : UploadCommit(r)
  \/ \E token \in Tokens : RouteAnalyze(token)
  \/ \E dataSetId \in AnalyzeIds : \E userQuestion \in AnalyzeQuestions :
       RoutedPOSTAnalyze(dataSetId, userQuestion, FALSE)
  \/ \E gemini \in GeminiOutcomes : POSTAnalyzeAnswer(gemini)

SpecAnalyzeAuth == InitAuth /\ [][NextAnalyzeAuth]_vars

\* MaxRegistrations concurrent registrations over an empty table User.
InitRegister == InitWith(<<>>)

\* The fields of the bodies: texts, numbers, and a missing username.
Usernames == {Undefined, Str("ann"), Str("bob"), Number("5")}

Passwords == {Str("secret"), Str("short"), Number("1234567")}

ReferenceCodes == {Str("AIBuild"), Str("aibuilt"), Number("5")}

NextRegister ==
  \/ \E k \in Registrations : \E username \in Usernames :
       \E password \in Passwords : \E referenceCode \in ReferenceCodes :
         RegisterCheck(k, username, password, referenceCode)
  \/ \E k \in Registrations : RegisterCreate(k)

SpecRegister == InitRegister /\ [][NextRegister]_vars

\* Two uploads of files of different names, and MaxPuts concurrent renames.
InitRename ==
  InitWith(<<Workbook("a.xlsx", <<ChartHeaderRow(1), ChartRowX>>),
             Workbook("b.xlsx", <<ChartHeaderRow(1), ChartRowY>>)>>)

\* The ids of the paths of the renames.
RenameIds == {"1", "2"}

\* The names of the bodies of the renames.
RenameNames == {Str("q1"), Str(" q1 "), Str("b.xlsx")}

NextRename ==
  \/ \E r \in Requests : UploadBegin(r)
  \/ \E r \in Requests : UploadRowName(r)
  \/ \E r \in Requests : UploadRowCreate(r)
  \/ \E r \in Requests : UploadCommit(r)
  \/ \E k \in PutRequests : \E idStr \in RenameIds : \E name \in RenameNames :
       PUTFind(k, idStr, name)
  \/ \E k \in PutRequests : PUTCheck(k)
  \/ \E k \in PutRequests : PUTUpdate(k)

SpecRename == InitRename /\ [][NextRename]_vars

\* One upload, and requests to /api/ai/analyze with the questions of the
\* four cases of testAIFix, a question in typographic quotes, and none.
AnalyzeTexts ==
  {Undefined, Str(""),
   Str("What is the best selling product?"),
   Text(<<"U+54EA", "U+4E2A", "U+4EA7", "U+54C1", "U+9500", "U+91CF",
          "U+6700", "U+597D", "U+FF1F">>),
   Str("What\"s the best product?"),
   Text(<<"d", "a", "t", "a", " ", "U+D83D", "U+DCCA">>),
   Str("a\\u2019b"),
   Text(<<"U+00A0", "U+201C", "b", "e", "s", "t", "U+201D", "U+2014", "U+2018",
          "a", "U+2019", "U+2026", " ", "U+3000">>)}

\* The dataSetId of these bodies: none, the number 1, and the text 1 after
\* white space beyond ASCII.
AnalyzeTextIds == {Undefined, Number("1"), Text(<<"U+2028", "U+FEFF", "1">>)}

NextAnalyze ==
  \/ \E r \in Requests : UploadBegin(r)
  \/ \E r \in Requests : UploadRowName(r)
  \/ \E r \in Requests : UploadRowCreate(r)
  \/ \E r \in Requests : UploadCommit(r)
  \/ \E dataSetId \in AnalyzeTextIds :
       \E userQuestion \in AnalyzeTexts : \E withChartData \in BOOLEAN :
         POSTAnalyze(dataSetId, userQuestion, withChartData)
  \/ \E gemini \in GeminiOutcomes : POSTAnalyzeAnswer(gemini)

SpecAnalyze == InitRequests /\ [][NextAnalyze]_vars

\* Two uploads, and a page whose requests for chart data are answered in
\* any order.
InitSelect ==
  InitWith(<<Workbook("a.xlsx", <<ChartHeaderRow(1), ChartRowX>>),
             Workbook("b.xlsx", <<ChartHeaderRow(1), ChartRowY>>)>>)

NextSelect ==
  \/ \E r \in Requests : UploadBegin(r)
  \/ \E r \in Requests : UploadRowName(r)
  \/ \E r \in Requests : UploadRowCreate(r)
  \/ \E r \in Requests : UploadCommit(r)
  \/ reload
  \/ \E id \in 0 .. dataSetSeq : onDatasetSelect(id)
  \/ \E i \in DOMAIN inflight : \E order \in DataSetOrders :
       GETDatasetsFindMany(i, order)
  \/ \E i \in DOMAIN inflight : loadDatasetsResolved(i)
  \/ \E i \in DOMAIN inflight : GETDataFindUnique(i)
  \/ \E i \in DOMAIN inflight :
       \E order \in ProductOrders(inflight[i].selectedSetId) :
         GETDataFindMany(i, order)
  \/ \E i \in DOMAIN inflight : fetchResolved(i)
  \/ \E i \in DOMAIN page.dataResponse.rawProducts :
       handleProductToggle(page.dataResponse.rawProducts[i].id)

SpecSelect == InitSelect /\ [][NextSelect]_vars

\* One upload, and a page whose DatasetManager deletes and renames the
\* dataset of its list.
InitManage ==
  InitWith(<<Workbook("a.xlsx", <<ChartHeaderRow(1), ChartRowX>>)>>)

\* The texts typed into the input of the name.
EditingNames == {" q1 ", "  "}

NextManage ==
  \/ \E r \in Requests : UploadBegin(r)
  \/ \E r \in Requests : UploadRowName(r)
  \/ \E r \in Requests : UploadRowCreate(r)
  \/ \E r \in Requests : UploadCommit(r)
  \/ \E id \in 0 .. dataSetSeq : onDatasetSelect(id)
  \/ \E i \in DOMAIN inflight : \E order \in DataSetOrders :
       GETDatasetsFindMany(i, order)
  \/ \E i \in DOMAIN inflight : loadDatasetsResolved(i)
  \/ \E i \in DOMAIN inflight : GETDataFindUnique(i)
  \/ \E i \in DOMAIN inflight :
       \E order \in ProductOrders(inflight[i].selectedSetId) :
         GETDataFindMany(i, order)
  \/ \E i \in DOMAIN inflight : fetchResolved(i)
  \/ handleDelete
  \/ \E i \in DOMAIN inflight : RequestedDELETEFind(i)
  \/ \E k \in DeleteRequests : DELETEDataSet(k)
  \/ \E i \in DOMAIN inflight : handleDeleteResolved(i)
  \/ handleEditStart
  \/ \E text \in EditingNames : setEditingName(text)
  \/ handleEditCancel
  \/ \E k \in PutRequests : handleEditSave(k)
  \/ \E i \in DOMAIN inflight : RequestedPUTFind(i)
  \/ \E k \in PutRequests : PUTCheck(k)
  \/ \E k \in PutRequests : PUTUpdate(k)
  \/ \E i \in DOMAIN inflight : handleEditSaveResolved(i)
  \/ \E i \in DOMAIN inflight : onDatasetUpdateResolved(i)

SpecManage == InitManage /\ [][NextManage]_vars

\* One chart workbook, its upload, the page and the panels of the chart.
PanelWorkbooks ==
  {Workbook("chart.xlsx", <<ChartHeaderRow(1), ChartRowX, ChartRowY>>),
   Workbook("chart.xlsx", <<ChartHeaderRow(1), ChartRowX, ChartRowProto>>)}

InitPanels == \E w \in PanelWorkbooks : InitWith(<<w>>)

NextPanels ==
  \/ \E r \in Requests : UploadBegin(r)
  \/ \E r \in Requests : UploadRowName(r)
  \/ \E r \in Requests : UploadRowCreate(r)
  \/ \E r \in Requests : UploadCommit(r)
  \/ reload
  \/ \E i \in DOMAIN inflight : \E order \in DataSetOrders :
       GETDatasetsFindMany(i, order)
  \/ \E i \in DOMAIN inflight : loadDatasetsResolved(i)
  \/ \E i \in DOMAIN inflight : GETDataFindUnique(i)
  \/ \E i \in DOMAIN inflight :
       \E order \in ProductOrders(inflight[i].selectedSetId) :
         GETDataFindMany(i, order)
  \/ \E i \in DOMAIN inflight : fetchResolved(i)
  \/ \E tab \in RightPanelTabs : setRightPanelTab(tab)
  \/ \E i \in DOMAIN page.dataResponse.rawProducts :
       handleProductToggle(page.dataResponse.rawProducts[i].id)
  \/ handleSelectAll
  \/ \E value \in DayInputs : handleStartDayChange(value)
  \/ clearAll
  \/ \E day \in ActiveLabels : handleChartClick(day)
  \/ \E i \in DOMAIN floatingPanels : handleClosePanel(floatingPanels[i].id)
  \/ onKey

SpecPanels == InitPanels /\ [][NextPanels]_vars

\* --------------------------------------------------------------- the claims

\* The rows of the sheet that the row loop does not skip, in order.
RECURSIVE AdmittedFrom(_, _, _)
AdmittedFrom(headers, sheet, i) ==
  IF i > Len(sheet) THEN <<>>
  ELSE (IF Admitted(headers, sheet[i]) THEN <<i>> ELSE <<>>)
         \o AdmittedFrom(headers, sheet, i + 1)

AdmittedRows(file) ==
  IF file.none \/ file.sheet = <<>> THEN <<>>
  ELSE AdmittedFrom(headersOf(file.sheet), file.sheet, 2)

\* Request r has been answered with a success.
Succeeded(r) == req[r].pc = "done" /\ req[r].response.status = 200

\* Request r has been answered with an error.
Failed(r) == req[r].pc = "done" /\ req[r].response.status # 200

\* The committed DailyData rows of a product.
RecordsOf(productId) == {x \in DailyData : x.productId = productId}

\* The integer a cell is to be coerced to.
IntOf(cell) == (CHOOSE c \in CellCases : c.cell = cell).int

\* The cell of column Opening Inventory of a row of a workbook of cells.
OpeningCell(row) == IF Len(row) >= 3 THEN row[3] ELSE Undefined

\* C1: every product created by an upload has a day-0 inventory equal to the
\* opening inventory of its row, and on every day d of 1 .. maxDay its
\* inventory is the inventory of day d-1 plus the procurement quantity of day
\* d minus the sales quantity of day d, a negative result being stored as it
\* is.
C1_Rollforward ==
  \A r \in Requests :
    Succeeded(r) =>
      \A j \in 1 .. Len(AdmittedRows(files[r])) :
        LET row  == files[r].sheet[AdmittedRows(files[r])[j]]
            recs == RecordsOf(req[r].keys[j])
        IN  /\ \E x \in recs :
                 x.day = 0 /\ x.inventory = IntOf(OpeningCell(row))
            /\ \A d \in 1 .. req[r].maxDay :
                 \E x \in recs, y \in recs :
                   /\ x.day = d
                   /\ y.day = d - 1
                   /\ x.inventory =
                        y.inventory + x.procurementQuantity - x.salesQuantity

\* A committed record of a day with a procurement and a sale that brings the
\* inventory from zero or more to less than zero.
C1_Witness ==
  \E x \in DailyData, y \in DailyData :
    /\ x.productId = y.productId
    /\ x.day = y.day + 1
    /\ y.inventory >= 0
    /\ x.procurementQuantity > 0
    /\ x.salesQuantity > 0
    /\ x.inventory < 0

\* The dataset of request r as the reads give it, when they give it.
ListedAs(r) == {d \in GETDatasets : d.id = req[r].dataSetId}

\* C2: the dataset, the products and the daily records of an upload become
\* visible together or not at all.  An upload that fails once its
\* transaction has begun leaves no dataset, no product and no daily record,
\* and a read that runs at any moment gives a dataset only with all of its
\* products and all of their daily records.
C2_Atomic ==
  /\ get.at = "findMany" =>
       \E r \in Requests :
         Succeeded(r) /\ req[r].dataSetId = parseInt(get.dataSetId).v
  /\ get.at = "sent" /\ get.status = 200 =>
       \E r \in Requests :
         /\ Succeeded(r)
         /\ req[r].dataSetId = parseInt(get.dataSetId).v
         /\ get.response.totalProducts = Len(AdmittedRows(files[r]))
         /\ get.response.totalRecords =
              Len(AdmittedRows(files[r])) * (req[r].maxDay + 1)
  /\ \A r \in Requests :
    /\ req[r].pc \in {"new", "tx"} \/ Failed(r) =>
         /\ ListedAs(r) = {}
         /\ req[r].dataSetId # 0 =>
              GETDataStatus(ToString(req[r].dataSetId)).status = 404
         /\ \A p \in Product : p.dataSetId # req[r].dataSetId
         /\ \A i \in 1 .. Len(req[r].keys) :
              /\ \A p \in Product : p.id # req[r].keys[i]
              /\ RecordsOf(req[r].keys[i]) = {}
    /\ \A d \in ListedAs(r) :
         /\ Succeeded(r)
         /\ d.name = files[r].name
         /\ d.productCount = Len(AdmittedRows(files[r]))
         /\ \A order \in ProductOrders(d.id) :
              /\ GETDataResponse(d.id, order).totalProducts
                   = Len(AdmittedRows(files[r]))
              /\ GETDataResponse(d.id, order).totalRecords
                   = Len(AdmittedRows(files[r])) * (req[r].maxDay + 1)

\* An upload has failed on its second product, its first one written,
\* another upload is committed and a read of its dataset is answered with
\* its products.
C2_Witness ==
  \E r \in Requests, q \in Requests :
    /\ Failed(r)
    /\ req[r].response.error = UniqueConstraintFailed
    /\ Len(req[r].keys) = 2
    /\ Succeeded(q)
    /\ ListedAs(q) # {}
    /\ get.at = "sent" /\ get.status = 200
    /\ parseInt(get.dataSetId).v = req[q].dataSetId
    /\ get.response.totalProducts > 0

\* C3: in every daily record the procurement amount is the procurement
\* quantity times the procurement price and the sales amount is the sales
\* quantity times the sales price, from the values stored in that record.
C3_Amounts ==
  \A x \in DailyData :
    /\ x.procurementAmount
         = Times(Double(x.procurementQuantity), x.procurementPrice)
    /\ x.salesAmount = Times(Double(x.salesQuantity), x.salesPrice)

\* A committed record with 5 bought at 2.5 and 3 sold at 0.25.
C3_Witness ==
  \E x \in DailyData :
    /\ x.procurementQuantity = 5
    /\ x.procurementPrice = Dyadic(5, 1)
    /\ x.procurementAmount = Dyadic(25, 1)
    /\ x.salesQuantity = 3
    /\ x.salesPrice = Dyadic(1, 2)
    /\ x.salesAmount = Dyadic(3, 2)

\* C4: for a detected maxDay of at least 1, every admitted row gets exactly
\* one daily record for each day of 0 .. maxDay, in increasing order of the
\* day and with zero quantities, prices and amounts on day 0: maxDay + 1
\* records for each product.
C4_DayRecords ==
  \A r \in Requests :
    /\ \A j \in 1 .. Len(req[r].createdProducts) :
         LET recs == req[r].createdProducts[j].dailyRecords
         IN  /\ Len(recs) = req[r].maxDay + 1
             /\ \A i \in 1 .. Len(recs) : recs[i].day = i - 1
             /\ recs[1].procurementQuantity = 0
             /\ recs[1].salesQuantity = 0
             /\ recs[1].procurementPrice = Zero
             /\ recs[1].salesPrice = Zero
             /\ recs[1].procurementAmount = Zero
             /\ recs[1].salesAmount = Zero
    /\ Succeeded(r) =>
         /\ req[r].maxDay >= 1
         /\ req[r].response.daysProcessed = req[r].maxDay
         /\ req[r].response.productsCount = Len(AdmittedRows(files[r]))
         /\ req[r].response.recordsCount
              = Len(AdmittedRows(files[r])) * (req[r].maxDay + 1)
         /\ \A j \in 1 .. Len(AdmittedRows(files[r])) :
              /\ {x.day : x \in RecordsOf(req[r].keys[j])} = 0 .. req[r].maxDay
              /\ Cardinality(RecordsOf(req[r].keys[j])) = req[r].maxDay + 1

\* A committed product of a workbook whose last day is the third, the second
\* day having no column at all.
C4_Witness ==
  \E r \in Requests :
    /\ Succeeded(r)
    /\ req[r].maxDay = 3
    /\ Cell(headersOf(files[r].sheet), files[r].sheet[2], "Sales Qty (Day 3)")
         = Number("20")
    /\ \E x \in RecordsOf(req[r].keys[1]) : x.day = 2 /\ x.salesQuantity = 0
    /\ \E x \in RecordsOf(req[r].keys[1]) : x.day = 3 /\ x.salesQuantity = 20

\* The day index with which a header text matches a template, -1 for none.
TemplateDay(text) ==
  IF \E c \in HeaderCases : c.h = text
  THEN (CHOOSE c \in HeaderCases : c.h = text).n
  ELSE -1

\* The day indices of the headers of a sheet that match a template.
TemplateDays(sheet) ==
  IF sheet = <<>> THEN {}
  ELSE {TemplateDay(sheet[1][i].s) : i \in 1 .. Len(sheet[1])} \ {-1}

\* The upload of request r has been parsed: it sent a file with a header row.
Parsed(r) ==
  req[r].pc # "new" /\ ~files[r].none /\ files[r].sheet # <<>>

\* C5: the detected maxDay is the largest N over the headers that match one
\* of the four templates, whatever the order of the columns and whichever of
\* the four columns a day has.
C5_MaxDay ==
  \A r \in Requests :
    Parsed(r) =>
      /\ req[r].maxDay = SetMax(TemplateDays(files[r].sheet) \cup {0})
      /\ Succeeded(r) =>
           req[r].response.daysProcessed
             = SetMax(TemplateDays(files[r].sheet) \cup {0})

\* An upload with a header of day 10 before a header of day 3 is answered
\* with 10 days.
C5_Witness ==
  \E r \in Requests :
    /\ Succeeded(r)
    /\ Len(files[r].sheet[1]) = 5
    /\ files[r].sheet[1][4].s = "Sales Price (Day 10)"
    /\ files[r].sheet[1][5].s = "SALES QTY (DAY 3)"
    /\ req[r].response.daysProcessed = 10

\* C6, as the specification states it, for the sheets with a header row: an
\* upload is rejected with a validation error exactly when no header matches
\* any of the four templates.
C6_RejectedIffNoTemplate ==
  \A r \in Requests :
    req[r].pc = "done" /\ Parsed(r) =>
      (req[r].response.status = 400 <=> TemplateDays(files[r].sheet) = {})

\* C6, amended: an upload of a sheet with a header row is rejected with the
\* validation error (400, no valid day columns) exactly when no header
\* matches a template with a day index of 1 or more; a sheet without any row
\* is answered 500.  Either answer comes before anything is persisted.
C6_RejectedIffNoDayFromOne ==
  \A r \in Requests :
    req[r].pc = "done" /\ ~files[r].none =>
      /\ (req[r].response.status = 400
            /\ req[r].response.error = NoValidDayColumns)
           <=> (files[r].sheet # <<>>
                  /\ \A n \in TemplateDays(files[r].sheet) : n < 1)
      /\ files[r].sheet = <<>> => req[r].response.status = 500
      /\ req[r].response.status \in {200, 400, 500}
      /\ req[r].response.status # 200 =>
           /\ req[r].dataSetId = 0
           /\ req[r].keys = <<>>
           /\ ListedAs(r) = {}

\* An upload whose only day header is that of day 0 is rejected.
C6_Witness ==
  \E r \in Requests :
    /\ Parsed(r)
    /\ TemplateDays(files[r].sheet) = {0}
    /\ req[r].response.status = 400
    /\ req[r].response.error = NoValidDayColumns
    /\ DataSet = {}

\* The names of the products among created that come before the j-th.
NamesBefore(created, j) == {created[i].name : i \in 1 .. j - 1}

\* The names in the rows of the sheet that the row loop does not skip, in
\* order, the name being in the second column of a workbook of names.
RECURSIVE NamesFrom(_, _, _)
NamesFrom(headers, sheet, i) ==
  IF i > Len(sheet) THEN <<>>
  ELSE (IF Admitted(headers, sheet[i]) THEN <<sheet[i][2].s>> ELSE <<>>)
         \o NamesFrom(headers, sheet, i + 1)

\* The names in the rows of the products of request r, in order.
BaseNames(r) ==
  IF files[r].none \/ files[r].sheet = <<>> THEN <<>>
  ELSE NamesFrom(headersOf(files[r].sheet), files[r].sheet, 2)

\* X(k)
Suffixed(baseName, k) == baseName \o "(" \o ToString(k) \o ")"

\* The suffixes a name of the workbooks of names may get: the pool has 5 as
\* its greatest small suffix and every row adds one at most.
Suffixes == 2 .. (5 + MaxRows + 1)

\* C7, as the specification states it: within one dataset no two products
\* have the same name.
C7_NamesUnique ==
  \A p \in Product, q \in Product :
    p.dataSetId = q.dataSetId /\ p.name = q.name => p.id = q.id

\* The least k >= 2 for which no product is named X(k).
LowestUnused(baseName, names) ==
  CHOOSE k \in Suffixes :
    /\ Suffixed(baseName, k) \notin names
    /\ \A m \in Suffixes : m < k => Suffixed(baseName, m) \in names

\* The greatest k for which a product is named X(k), X itself being X(1).
GreatestUsed(baseName, names) ==
  SetMax({1} \cup {k \in Suffixes : Suffixed(baseName, k) \in names})

\* C8, as the specification states it: a row whose name X exists already in
\* the dataset gets the name X(k) with the lowest k >= 2 not in use.
C8_LowestUnused ==
  \A r \in Requests :
    LET created == req[r].createdProducts
        base    == BaseNames(r)
    IN  \A j \in 1 .. Len(created) :
          base[j] \in NamesBefore(created, j) =>
            created[j].name
              = Suffixed(base[j],
                         LowestUnused(base[j], NamesBefore(created, j)))

\* C8, amended: a row whose name X exists already in the dataset gets the
\* name X(m + 1), m being the greatest k for which X(k) exists and X itself
\* counting as X(1); a gap below m is not filled.  The sum is one of
\* doubles: at m = 2^53 it is m again.
C8_GreatestPlusOne ==
  \A r \in Requests :
    LET created == req[r].createdProducts
        base    == BaseNames(r)
    IN  \A j \in 1 .. Len(created) :
          base[j] \in NamesBefore(created, j) =>
            created[j].name
              = IF base[j] \o "(" \o TwoPow53 \o ")" \in NamesBefore(created, j)
                THEN base[j] \o "(" \o TwoPow53 \o ")"
                ELSE Suffixed(base[j],
                       GreatestUsed(base[j], NamesBefore(created, j)) + 1)

\* The rows X, X(5), X are committed: the third product is X(6).
C8_Witness ==
  \E r \in Requests :
    /\ Succeeded(r)
    /\ BaseNames(r) = <<"X", "X(5)", "X">>
    /\ req[r].createdProducts[3].name = "X(6)"
    /\ \E p \in Product : p.name = "X(6)"

\* No row of the file of request r has a name with a literal suffix.
PlainFile(r) ==
  \A i \in 2 .. Len(files[r].sheet) : files[r].sheet[i][2].s \in PlainNames

\* C9: in a file without literally suffixed names, the k-th admitted row
\* named X gets the name X for k = 1 and X(k) for k >= 2.
C9_KthRow ==
  \A r \in Requests :
    ~files[r].none /\ PlainFile(r) =>
      LET created == req[r].createdProducts
          base    == BaseNames(r)
      IN  \A j \in 1 .. Len(created) :
            created[j].name
              = IF Cardinality({i \in 1 .. j : base[i] = base[j]}) = 1
                THEN base[j]
                ELSE Suffixed(base[j],
                       Cardinality({i \in 1 .. j : base[i] = base[j]}))

\* Three rows named X are committed as X, X(2) and X(3).
C9_Witness ==
  \E r \in Requests :
    /\ Succeeded(r)
    /\ BaseNames(r) = <<"X", "X", "X">>
    /\ {p.name : p \in Product} = {"X", "X(2)", "X(3)"}

\* C10, as the specification states it: the keys generated for the products
\* are distinct, for every dataset id, product ID of the file, timestamp and
\* random suffix, so no product key collides with another.
C10_KeysDistinct ==
  \A r \in Requests, q \in Requests :
    \A i \in 1 .. Len(req[r].keys), j \in 1 .. Len(req[q].keys) :
      req[r].keys[i] = req[q].keys[j] => r = q /\ i = j

\* A cell holds a non-empty value.
NonEmpty(cell) == cell.t # "undefined" /\ cell.s # ""

\* The number of the data rows of a workbook of rows in which both the ID
\* cell, the first, and the Product Name cell, the second, are non-empty.
FullRows(sheet) ==
  Cardinality({i \in 2 .. Len(sheet) :
                 /\ Len(sheet[i]) >= 2
                 /\ NonEmpty(sheet[i][1])
                 /\ NonEmpty(sheet[i][2])})

\* C11, as the specification states it: a row without an ID or a name is
\* skipped and the upload goes on, every row with both (an ID that is the
\* number 0 too) gives one product, and productsCount of the summary is the
\* number of the rows with both.
C11_OneProductPerFullRow ==
  \A r \in Requests :
    req[r].pc = "done" =>
      /\ req[r].response.status = 200
      /\ req[r].response.productsCount = FullRows(files[r].sheet)
      /\ Cardinality({p \in Product : p.dataSetId = req[r].dataSetId})
           = FullRows(files[r].sheet)


\* C12, as the specification states it: whatever the cells of an admitted
\* row hold, the upload does not fail and no row is dropped; the answer is
\* 200 and every admitted row has its product, with a record for day 0 and
\* for every day of 1 .. maxDay.
C12_NoCellFailsTheUpload ==
  \A r \in Requests :
    req[r].pc = "done" /\ Parsed(r) /\ req[r].maxDay > 0 =>
      /\ req[r].response.status = 200
      /\ Cardinality({p \in Product : p.dataSetId = req[r].dataSetId})
           = Len(AdmittedRows(files[r]))
      /\ \A p \in Product :
           p.dataSetId = req[r].dataSetId =>
             {d.day : d \in RecordsOf(p.id)} = 0 .. req[r].maxDay

\* C13, as the specification states it: every stored record has quantities
\* and prices of 0 or more, and the inventory of day 0, the opening
\* inventory, is 0 or more, whatever the cells of the workbook hold.
C13_NonNegative ==
  \A x \in DailyData :
    /\ x.procurementQuantity >= 0
    /\ x.salesQuantity >= 0
    /\ ~LessThan(x.procurementPrice, Zero)
    /\ ~LessThan(x.salesPrice, Zero)
    /\ (x.day = 0 => x.inventory >= 0)

\* The page shows a dataset: its last fetch was answered with the data.
Shown == page.dataResponse.ok

\* The stored records of the products of a dataset.
RowsOfDataSet(id) ==
  {x \in DailyData :
     \E p \in Product : p.id = x.productId /\ p.dataSetId = id}

\* The stored records of the products of a dataset for a day.
RowsOn(id, day) == {x \in RowsOfDataSet(id) : x.day = day}

\* The sum of the inventories of a set of stored records.
RECURSIVE TotalInventory(_)
TotalInventory(rows) ==
  IF rows = {} THEN 0
  ELSE (CHOOSE x \in rows : TRUE).inventory
         + TotalInventory(rows \ {CHOOSE x \in rows : TRUE})

\* The sum of salesQuantity * salesPrice over a set of stored records.
RECURSIVE TotalSales(_)
TotalSales(rows) ==
  IF rows = {} THEN Zero
  ELSE Plus(Times(Double((CHOOSE x \in rows : TRUE).salesQuantity),
                  (CHOOSE x \in rows : TRUE).salesPrice),
            TotalSales(rows \ {CHOOSE x \in rows : TRUE}))

\* The sum of procurementQuantity * procurementPrice over a set of stored
\* records.
RECURSIVE TotalProcurement(_)
TotalProcurement(rows) ==
  IF rows = {} THEN Zero
  ELSE Plus(Times(Double((CHOOSE x \in rows : TRUE).procurementQuantity),
                  (CHOOSE x \in rows : TRUE).procurementPrice),
            TotalProcurement(rows \ {CHOOSE x \in rows : TRUE}))

\* C14, as the specification states it: the overview series of a dataset
\* has one entry for each day of a stored record of a product of the dataset
\* and no other entry, and the inventory, salesAmount and procurementAmount
\* of the entry of a day are the sums of inventory, salesQuantity *
\* salesPrice and procurementQuantity * procurementPrice over the records of
\* that day.
C14_OverviewSums ==
  Shown =>
    /\ {chartData[k].day : k \in DOMAIN chartData}
         = {x.day : x \in RowsOfDataSet(page.selectedSetId)}
    /\ Len(chartData)
         = Cardinality({x.day : x \in RowsOfDataSet(page.selectedSetId)})
    /\ \A k \in DOMAIN chartData :
         /\ chartData[k].inventory
              = TotalInventory(RowsOn(page.selectedSetId, chartData[k].day))
         /\ chartData[k].salesAmount
              = TotalSales(RowsOn(page.selectedSetId, chartData[k].day))
         /\ chartData[k].procurementAmount
              = TotalProcurement(RowsOn(page.selectedSetId, chartData[k].day))

\* C14, amended: the overview series of a dataset has one entry for each day
\* of a stored record of a product of the dataset and no other entry; the
\* inventory of the entry of a day is the sum of the inventories of the
\* records of that day, and its salesAmount and procurementAmount are the
\* sums of salesQuantity * salesPrice and of procurementQuantity *
\* procurementPrice over these records when the sum is a finite number, and
\* null when it is not.
C14_Overview ==
  Shown =>
    /\ {chartData[k].day : k \in DOMAIN chartData}
         = {x.day : x \in RowsOfDataSet(page.selectedSetId)}
    /\ Len(chartData)
         = Cardinality({x.day : x \in RowsOfDataSet(page.selectedSetId)})
    /\ \A k \in DOMAIN chartData :
         /\ chartData[k].inventory
              = TotalInventory(RowsOn(page.selectedSetId, chartData[k].day))
         /\ chartData[k].salesAmount
              = JSONNumber(
                  TotalSales(RowsOn(page.selectedSetId, chartData[k].day)))
         /\ chartData[k].procurementAmount
              = JSONNumber(
                  TotalProcurement(
                    RowsOn(page.selectedSetId, chartData[k].day)))

\* The page shows the overview of a dataset of two products or more, with an
\* entry of day 1 whose three sums are not zero.
C14_Witness ==
  /\ Shown
  /\ Len(page.dataResponse.rawProducts) >= 2
  /\ \E k \in DOMAIN chartData :
       /\ chartData[k].day = 1
       /\ Cardinality(RowsOn(page.selectedSetId, 1)) >= 2
       /\ chartData[k].inventory # 0
       /\ chartData[k].salesAmount # Zero
       /\ chartData[k].procurementAmount # Zero

\* The products of the response that are selected.
SelectedOnPage ==
  {i \in DOMAIN page.dataResponse.rawProducts :
     page.dataResponse.rawProducts[i].id \in page.selectedProductIds}

\* Day day is within the day range of the page.
InRange(day) ==
  /\ (page.dayRange.start.set =>
        ~page.dayRange.start.nan /\ day >= page.dayRange.start.v)
  /\ (page.dayRange.end.set =>
        ~page.dayRange.end.nan /\ day <= page.dayRange.end.v)

\* The days within the range of the stored records of the selected products.
SelectedDays ==
  {x.day : x \in {y \in RowsOfDataSet(page.selectedSetId) :
                    /\ y.productId \in page.selectedProductIds
                    /\ InRange(y.day)}}

\* The value of a field of an entry of the wide series is that of the stored
\* record of the product for the day of the entry, or zero without one.
FieldIs(entry, key, productId, Value(_), zero) ==
  /\ key \in DOMAIN entry.fields
  /\ IF \E x \in DailyData : x.productId = productId /\ x.day = entry.key
     THEN entry.fields[key]
            = Value(CHOOSE x \in DailyData :
                      x.productId = productId /\ x.day = entry.key)
     ELSE entry.fields[key] = zero

InventoryOf(x) == x.inventory

SalesAmountOf(x) == x.salesAmount

ProcurementAmountOf(x) == x.procurementAmount

\* C15, as the specification states it: the wide series has one entry for
\* each day within the range of a record of a selected product, and every
\* entry has, for every selected product, the fields {name}_Inventory,
\* {name}_Sales and {name}_Procurement with the inventory, salesAmount and
\* procurementAmount of the record of the product for the day, or 0 in all
\* three when the product has no record for the day.
C15_WideFields ==
  Shown =>
    /\ {TransformedChartData[k].key : k \in DOMAIN TransformedChartData}
         = SelectedDays
    /\ \A k \in DOMAIN TransformedChartData :
         \A i \in SelectedOnPage :
           /\ FieldIs(TransformedChartData[k],
                      page.dataResponse.rawProducts[i].name \o "_Inventory",
                      page.dataResponse.rawProducts[i].id, InventoryOf, 0)
           /\ FieldIs(TransformedChartData[k],
                      page.dataResponse.rawProducts[i].name \o "_Sales",
                      page.dataResponse.rawProducts[i].id, SalesAmountOf,
                      Zero)
           /\ FieldIs(TransformedChartData[k],
                      page.dataResponse.rawProducts[i].name \o "_Procurement",
                      page.dataResponse.rawProducts[i].id, ProcurementAmountOf,
                      Zero)

\* The days of the entries of the overview series and of the wide series.
OverviewDays == {chartData[k].day : k \in DOMAIN chartData}

WideDays == {TransformedChartData[k].key : k \in DOMAIN TransformedChartData}

\* C16, as the specification states it: with a day range, the overview
\* series and the wide series both have an entry for a day only if the day
\* is within the range, each bound applied when it is set and both
\* inclusive, and both have an entry for every day within the range for
\* which an included product has a record.
C16_BothViewsFiltered ==
  Shown =>
    /\ \A d \in OverviewDays \cup WideDays : InRange(d)
    /\ \A d \in SelectedDays : d \in WideDays
    /\ \A x \in RowsOfDataSet(page.selectedSetId) :
         InRange(x.day) => x.day \in OverviewDays

\* C16, amended: the wide series has an entry for a day if and only if the
\* day is within the range of the page, each bound applied when it is set
\* and both inclusive, and a selected product has a record for it; the
\* overview series takes no range and has an entry for every day of a record
\* of a product of the dataset, within the range or not.
C16_WideFiltered ==
  Shown =>
    /\ \A d \in WideDays : InRange(d)
    /\ WideDays = SelectedDays
    /\ OverviewDays = {x.day : x \in RowsOfDataSet(page.selectedSetId)}

\* The page shows a dataset with records for the days 1 to 10 with the range
\* from 3 to 6: the wide series has the entries of the days 3, 4, 5 and 6,
\* the overview series those of all the days.
C16_Witness ==
  /\ Shown
  /\ page.dayRange = [start |-> DayNumber(3), end |-> DayNumber(6)]
  /\ 1 .. 10 \subseteq {x.day : x \in RowsOfDataSet(page.selectedSetId)}
  /\ [k \in DOMAIN TransformedChartData |-> TransformedChartData[k].key]
       = <<3, 4, 5, 6>>
  /\ 1 .. 10 \subseteq OverviewDays

\* The days of the entries of a series, in the order of the entries.
OverviewOrder == [k \in DOMAIN chartData |-> chartData[k].day]

WideOrder ==
  [k \in DOMAIN TransformedChartData |-> TransformedChartData[k].key]

\* The numbers of a sequence rise strictly.
Ascending(days) ==
  \A i, j \in DOMAIN days : i < j => days[i] < days[j]

\* C17: the entries of the overview series and those of the wide series are
\* in strictly ascending numeric order of day, no day twice, in whichever
\* order the query gave the products; the label of an entry of the wide
\* series is that of its day.
C17_AscendingDays ==
  Shown =>
    /\ Ascending(OverviewOrder)
    /\ Ascending(WideOrder)
    /\ \A k \in DOMAIN TransformedChartData :
         TransformedChartData[k].day
           = "Day " \o ToString(TransformedChartData[k].key)

\* The page shows a dataset with the days 9 and 10: in both series the entry
\* of day 10 is the one right after that of day 9, and after that of day 2.
C17_Witness ==
  /\ Shown
  /\ Len(page.dataResponse.rawProducts) >= 2
  /\ \E k \in DOMAIN chartData :
       /\ k > 3
       /\ chartData[k - 1].day = 9
       /\ chartData[k].day = 10
  /\ \E k \in DOMAIN TransformedChartData :
       /\ k > 3
       /\ TransformedChartData[k - 1].day = "Day 9"
       /\ TransformedChartData[k].day = "Day 10"

\* The sum of the stored salesAmount of a set of stored records.
RECURSIVE TotalStoredSales(_)
TotalStoredSales(rows) ==
  IF rows = {} THEN Zero
  ELSE Plus((CHOOSE x \in rows : TRUE).salesAmount,
              TotalStoredSales(rows \ {CHOOSE x \in rows : TRUE}))

\* The sum of the stored procurementAmount of a set of stored records.
RECURSIVE TotalStoredProcurement(_)
TotalStoredProcurement(rows) ==
  IF rows = {} THEN Zero
  ELSE Plus((CHOOSE x \in rows : TRUE).procurementAmount,
              TotalStoredProcurement(rows \ {CHOOSE x \in rows : TRUE}))

\* The text ends with the suffix.
endsWith(text, suffix) ==
  /\ Len(text) >= Len(suffix)
  /\ SubSeq(text, Len(text) - Len(suffix) + 1, Len(text)) = suffix

\* The sum of the fields of an entry of the wide series whose keys are keys.
RECURSIVE TotalFields(_, _)
TotalFields(fields, keys) ==
  IF keys = {} THEN Zero
  ELSE Plus(fields[CHOOSE key \in keys : TRUE],
              TotalFields(fields, keys \ {CHOOSE key \in keys : TRUE}))

\* The sum of the fields of an entry of the wide series whose keys end with
\* the suffix.
TotalWide(entry, suffix) ==
  TotalFields(entry.fields,
              {key \in DOMAIN entry.fields : endsWith(key, suffix)})

\* All the products of the response are selected and no bound of the day
\* range is set.
AllSelected ==
  /\ SelectedOnPage = DOMAIN page.dataResponse.rawProducts
  /\ page.dayRange = NoDayRange

\* The amounts of the overview series, recomputed, are the sums of the
\* stored amounts.
RecomputedIsStored ==
  \A k \in DOMAIN chartData :
    /\ chartData[k].salesAmount
         = TotalStoredSales(RowsOn(page.selectedSetId, chartData[k].day))
    /\ chartData[k].procurementAmount
         = TotalStoredProcurement(RowsOn(page.selectedSetId, chartData[k].day))

\* C18, as the specification states it: for each day, salesAmount and
\* procurementAmount of the overview series are the sums of the stored
\* salesAmount and procurementAmount of the records of the day; so, with all
\* the products selected and no day filter, they are the sums of the
\* {name}_Sales and of the {name}_Procurement fields of the entry of the
\* day of the wide series.
C18_RecomputedIsStored ==
  Shown =>
    /\ RecomputedIsStored
    /\ AllSelected =>
         \A k \in DOMAIN chartData :
           \E j \in DOMAIN TransformedChartData :
             /\ TransformedChartData[j].key = chartData[k].day
             /\ chartData[k].salesAmount
                  = TotalWide(TransformedChartData[j], "_Sales")
             /\ chartData[k].procurementAmount
                  = TotalWide(TransformedChartData[j], "_Procurement")

\* C19, as the specification states it: the two series are a function of the
\* stored products and records of the dataset and of the filters of the
\* page; a second fetch of the dataset shown, with the selection and the day
\* range of the page, gives the overview series and the wide series that the
\* page has, entry for entry, in whichever order the query gives the
\* products the second time.
C19_Deterministic ==
  Shown =>
    \A order \in ProductOrders(page.selectedSetId) :
      /\ GETDataResponse(page.selectedSetId, order).chartData = chartData
      /\ transformedChartData(
           GETDataResponse(page.selectedSetId, order).rawProducts,
           page.selectedProductIds, page.dayRange)
           = TransformedChartData

\* Every product refers to a stored dataset and every record to a stored
\* product.
ReferentialIntegrity ==
  /\ \A p \in Product : \E d \in DataSet : d.id = p.dataSetId
  /\ \A x \in DailyData : \E p \in Product : p.id = x.productId

\* A step in which DELETE request k is answered 200 leaves no product of its
\* dataset and no record of such a product, and leaves the rows of every
\* other dataset as they were.
DeleteStep(k) ==
  del[k].pc = "found" /\ del'[k].pc = "done" /\ del'[k].response.status = 200 =>
    /\ \A d \in DataSet' : d.id # del[k].datasetId
    /\ \A p \in Product' : p.dataSetId # del[k].datasetId
    /\ \A x \in DailyData' :
         \A p \in Product : p.id = x.productId => p.dataSetId # del[k].datasetId
    /\ {d \in DataSet : d.id # del[k].datasetId} \subseteq DataSet'
    /\ {p \in Product : p.dataSetId # del[k].datasetId} \subseteq Product'
    /\ {x \in DailyData :
          \E p \in Product :
            p.id = x.productId /\ p.dataSetId # del[k].datasetId}
         \subseteq DailyData'
    /\ DataSet' \subseteq DataSet
    /\ Product' \subseteq Product
    /\ DailyData' \subseteq DailyData

\* C20: a successful DELETE of a dataset leaves no product of the dataset
\* and no record of its products, and leaves every other dataset with its
\* products and records unchanged; in every state each product refers to a
\* stored dataset and each record to a stored product.
C20_CascadeDelete ==
  /\ []ReferentialIntegrity
  /\ [][\A k \in DeleteRequests : DeleteStep(k)]_vars

\* A DELETE of a dataset with products has been answered 200 while another
\* dataset with its products and records is stored.
C20_Witness ==
  \E k \in DeleteRequests :
    /\ del[k].pc = "done"
    /\ del[k].response.status = 200
    /\ del[k].response.productCount > 0
    /\ \A d \in DataSet : d.id # del[k].datasetId
    /\ \E p \in Product : \E x \in DailyData : x.productId = p.id


\* The text of a dataset id is well formed: decimal digits only.
WellFormedId(idStr) ==
  /\ Len(idStr) > 0
  /\ \A i \in 1 .. Len(idStr) : SubSeq(idStr, i, i) \in Digits

\* No dataset has the id that the text denotes.
NoSuchDataSet(idStr) == \A d \in DataSet : ToString(d.id) # idStr

StoreUnchanged == UNCHANGED <<DataSet, Product, DailyData>>

\* One step of a request for a well-formed id of no dataset is answered 404
\* and leaves the store as it is.
C21_Step ==
  /\ \A idStr \in RequestIds :
       WellFormedId(idStr) /\ NoSuchDataSet(idStr) =>
         /\ GETDataRequest(idStr) => get'.status = 404 /\ StoreUnchanged
         /\ DELETEFind(1, idStr) =>
              /\ del'[1].pc = "done"
              /\ del'[1].response.status = 404
              /\ StoreUnchanged
         /\ \A name \in RequestNames :
              PUTFind(1, idStr, name) /\ ~NameRequired(name) =>
                /\ put'[1].pc = "done"
                /\ put'[1].response.status = 404
                /\ StoreUnchanged
  /\ \A dataSetId \in AnalyzeIds, userQuestion \in AnalyzeQuestions :
       /\ Truthy(dataSetId) /\ Truthy(userQuestion)
       /\ WellFormedId(String(dataSetId))
       /\ NoSuchDataSet(String(dataSetId))
       /\ POSTAnalyze(dataSetId, userQuestion, FALSE)
       => ai'.status = 404 /\ StoreUnchanged

\* C21, as the specification states it: an otherwise valid GET, PUT, DELETE
\* or AI analysis request for a well-formed dataset id that does not exist is
\* answered 404, never 400 or 500, and leaves the store unchanged.
C21_NotFound == [][C21_Step]_vars

\* The same for the ids that a 32-bit integer holds.
C21_StepInt4 ==
  /\ \A idStr \in RequestIds :
       WellFormedId(idStr) /\ NoSuchDataSet(idStr) /\ ~parseInt(idStr).big =>
         /\ GETDataRequest(idStr) => get'.status = 404 /\ StoreUnchanged
         /\ DELETEFind(1, idStr) =>
              /\ del'[1].pc = "done"
              /\ del'[1].response.status = 404
              /\ StoreUnchanged
         /\ \A name \in RequestNames :
              PUTFind(1, idStr, name) /\ ~NameRequired(name) =>
                /\ put'[1].pc = "done"
                /\ put'[1].response.status = 404
                /\ StoreUnchanged
  /\ \A dataSetId \in AnalyzeIds, userQuestion \in AnalyzeQuestions :
       /\ Truthy(dataSetId) /\ Truthy(userQuestion)
       /\ WellFormedId(String(dataSetId))
       /\ NoSuchDataSet(String(dataSetId))
       /\ ~parseInt(String(dataSetId)).big
       /\ POSTAnalyze(dataSetId, userQuestion, FALSE)
       => ai'.status = 404 /\ StoreUnchanged

C21_NotFoundInt4 == [][C21_StepInt4]_vars

\* The names and the daily records of the products that the rows i .. of the
\* file give when nothing but the upload runs: the row loop of the upload
\* over a store that holds the products of the earlier rows only.
RECURSIVE AloneFrom(_, _, _, _)
AloneFrom(file, maxDay, i, created) ==
  IF i > Len(file.sheet) THEN created
  ELSE IF ~Admitted(headersOf(file.sheet), file.sheet[i])
  THEN AloneFrom(file, maxDay, i + 1, created)
  ELSE AloneFrom(
         file, maxDay, i + 1,
         Append(created,
                [name |->
                   generateUniqueProductName(
                     {[name |-> created[j].name, dataSetId |-> 0] :
                        j \in 1 .. Len(created)},
                     String(Cell(headersOf(file.sheet), file.sheet[i],
                                 "Product Name")),
                     0),
                 dailyRecords |->
                   dailyRecordsToCreate(headersOf(file.sheet), file.sheet[i],
                                        maxDay)]))

Alone(file) ==
  AloneFrom(file, detectMaxDay(headersOf(file.sheet)), 2, <<>>)

\* The names and the daily records of the products that upload r has
\* created, in the order of the rows.
Produced(r) ==
  [i \in 1 .. Len(req[r].createdProducts) |->
     [name |-> req[r].createdProducts[i].name,
      dailyRecords |-> req[r].createdProducts[i].dailyRecords]]

\* Two of the keys are the same.
Collides(keys) ==
  \E i, j \in 1 .. Len(keys) : i < j /\ keys[i] = keys[j]

\* C22: for every interleaving of the concurrent uploads, an upload that has
\* begun its transaction has a DataSet id of its own, the products it has
\* created so far are those it creates when run alone, and it fails on a
\* product key only when two of its own keys collide; once it has committed,
\* the products and the records of its DataSet are exactly those it created.
C22_UploadsIndependent ==
  \A r \in Requests :
    /\ req[r].pc = "tx" \/ req[r].response.status = 200 =>
         /\ \A q \in Requests \ {r} :
              req[q].dataSetId # 0 => req[q].dataSetId # req[r].dataSetId
         /\ Produced(r) = SubSeq(Alone(files[r]), 1, Len(req[r].createdProducts))
         /\ \A i \in 1 .. Len(req[r].createdProducts) :
              req[r].createdProducts[i].dataSetId = req[r].dataSetId
    /\ req[r].response.status = 200 =>
         /\ Produced(r) = Alone(files[r])
         /\ {p \in Product : p.dataSetId = req[r].dataSetId}
              = ProductRows(req[r].createdProducts)
         /\ {d \in DailyData :
               \E p \in Product :
                 p.id = d.productId /\ p.dataSetId = req[r].dataSetId}
              = DailyRows(req[r].createdProducts)
    /\ req[r].response.error = UniqueConstraintFailed => Collides(req[r].keys)

\* The second upload of the two rows named X has committed X and X(2) while
\* the transaction of the first, begun earlier, has created its X and is
\* about to name its second product.
C22_Witness ==
  /\ Cardinality(Requests) >= 2
  /\ req[1].pc = "tx"
  /\ Len(req[1].createdProducts) = 1
  /\ req[1].row = 3
  /\ Admitted(headersOf(files[1].sheet), files[1].sheet[3])
  /\ req[2].response.status = 200
  /\ Len(req[2].createdProducts) = 2
  /\ req[2].createdProducts[2].name = "X(2)"

\* The path begins with one of the four protected prefixes.
ProtectedPath(pathname) ==
  \E route \in {"/dashboard", "/api/datasets", "/api/data", "/api/upload"} :
    startsWith(pathname, route)

\* The request carries a token cookie that verifies.
Authenticated(h) == Truthy(h.token) /\ verifyToken(String(h.token))

\* What the claim says of one request for a protected path.
Guarded(k) ==
  /\ http[k].seen
  /\ http[k].next => Authenticated(http[k])
  /\ ~Authenticated(http[k]) =>
       IF startsWith(http[k].pathname, "/api/")
       THEN http[k].status = 401
       ELSE startsWith(http[k].redirect, "/login")
  /\ Truthy(http[k].token) /\ ~Authenticated(http[k]) => http[k].cookieDeleted
  /\ del[k].pc # "new" => Authenticated(http[k])

\* C23, as the specification states it: every request whose path begins with
\* /dashboard, /api/datasets, /api/data or /api/upload is intercepted by the
\* middleware and reaches its handler only with a token cookie that verifies;
\* without one an /api/ path is answered 401 and a page path is redirected to
\* /login, an invalid token cookie being deleted, whatever the rest of the
\* path contains.
C23_Protected ==
  \A k \in DeleteRequests :
    http[k] # NotRouted /\ ProtectedPath(http[k].pathname) => Guarded(k)

\* The same for the paths without a dot.
C23_ProtectedNoDot ==
  \A k \in DeleteRequests :
    /\ http[k] # NotRouted
    /\ ProtectedPath(http[k].pathname)
    /\ ~HasChar(http[k].pathname, ".")
    => Guarded(k)

\* C26, as the specification states it: POST /api/ai/analyze, which loads
\* every product and daily record of the requested dataset, answers only a
\* request that carries a token cookie that verifies.
C26_AnalyzeAuthenticated ==
  [][ai' # ai => Authenticated(analyzeHttp)]_vars

\* The three fields of the body of registration k are truthy.
FieldsGiven(k) ==
  /\ Truthy(reg[k].username) /\ Truthy(reg[k].password)
  /\ Truthy(reg[k].referenceCode)

\* The reference code of registration k is the text aibuild in any case.
CodeAccepted(k) ==
  /\ reg[k].referenceCode.t = "string"
  /\ Lower(String(reg[k].referenceCode)) = "aibuild"

\* The password of registration k is a text of fewer than 6 characters.
ShortPassword(k) ==
  reg[k].password.t = "string" /\ Len(String(reg[k].password)) < 6

\* The body of registration k is one of a user that can be created: three
\* texts that are not empty, the reference code aibuild in any case and a
\* password of 6 characters or more.
ValidBody(k) ==
  /\ FieldsGiven(k) /\ CodeAccepted(k)
  /\ reg[k].username.t = "string"
  /\ reg[k].password.t = "string" /\ ~ShortPassword(k)

\* The users with the username of registration k.
UsersNamed(k) == {u \in User : u.username = String(reg[k].username)}

\* Another registration created the user of the username of registration k.
CreatedByAnother(k) ==
  \E j \in Registrations \ {k} :
    reg[j].response.status = 201 /\ reg[j].username = reg[k].username

\* template that the header names, in any letter case.
TemplateField(header) ==
  CHOOSE i \in 1 .. 4 :
    \E at \in 1 .. Len(header) :
      Len(header) >= at + Len(dayPatterns[i]) - 1
        /\ Lower(SubSeq(header, at, at + Len(dayPatterns[i]) - 1))
             = dayPatterns[i]

\* The integer of a natural number below 2^31.
RECURSIVE IntOfNat(_)
IntOfNat(a) == IF a = <<>> THEN 0 ELSE a[1] + Radix * IntOfNat(Tail(a))

\* The whole part of a finite double of a magnitude below 2^31.
Truncated(x) ==
  (IF x.neg THEN -1 ELSE 1)
    * IntOfNat(IF x.e >= 0 THEN ShiftLeft(x.m, x.e)
               ELSE ShiftRight(x.m, -x.e).q)

\* The field of the record as a number: a quantity, or the whole part of a
\* price.
FieldValue(x, i) ==
  CASE i = 1 -> x.procurementQuantity
    [] i = 2 -> Truncated(x.procurementPrice)
    [] i = 3 -> x.salesQuantity
    [] i = 4 -> Truncated(x.salesPrice)

\* One column of the sheet of upload r has the header, blanks around it apart.
OneColumn(r, header) ==
  Cardinality({i \in 1 .. Len(files[r].sheet[1]) :
                 trim(String(files[r].sheet[1][i])) = trim(header)}) = 1

\* C25, as the specification states it: the rollforward reads the column of
\* every header that the detection of maxDay recognises as a template column
\* of day N, in any letter case, as the quantity or price of day N; the cell
\* 5 under the first day header of the sheet, recognised for day N >= 1, is
\* the value of that field in the stored record of day N.
C25_DetectionAndRollforwardAgree ==
  \A r \in Requests :
    Succeeded(r) /\ Len(files[r].sheet[1]) >= 4 /\ Len(req[r].keys) = 1 =>
      LET h == String(files[r].sheet[1][4])
          n == (CHOOSE c \in HeaderCases : c.h = h).n
      IN  n >= 1 /\ files[r].sheet[2][4] = Number("5") /\ OneColumn(r, h) =>
            \E x \in RecordsOf(req[r].keys[1]) :
              x.day = n /\ FieldValue(x, TemplateField(h)) = 5

\* The same for the headers that are a template text to the letter.
C25_ExactHeadersAgree ==
  \A r \in Requests :
    Succeeded(r) /\ Len(files[r].sheet[1]) >= 4 /\ Len(req[r].keys) = 1 =>
      LET h == String(files[r].sheet[1][4])
          n == (CHOOSE c \in HeaderCases : c.h = h).n
      IN  /\ n >= 1 /\ files[r].sheet[2][4] = Number("5") /\ OneColumn(r, h)
          /\ \E i \in 1 .. 4 :
               trim(h) = dayKey(<<"Procurement Qty", "Procurement Price",
                                  "Sales Qty", "Sales Price">>[i], n)
          => \E x \in RecordsOf(req[r].keys[1]) :
               x.day = n /\ FieldValue(x, TemplateField(h)) = 5

\* The datasets with the name.
Named(datasets, name) == {d \in datasets : d.name = name}

\* What the claim says of one step of rename k.
RenameStep(k) ==
  \* the lookup of the name: a name that another dataset has is rejected
  /\ put[k].pc = "found" /\ put'[k].pc # "found" =>
       /\ (\E d \in DataSet : d.name = put[k].name /\ d.id # put[k].datasetId)
            <=> put'[k].response.status = 409
       /\ UNCHANGED <<DataSet, Product, DailyData>>
  \* the update: only the name of the one dataset changes, and no other
  \* dataset holds it
  /\ put[k].pc = "checked" /\ put'[k].response.status = 200 =>
       /\ UNCHANGED <<Product, DailyData>>
       /\ \A d \in DataSet : d.id # put[k].datasetId => d \in DataSet'
       /\ \E d \in DataSet :
            /\ d.id = put[k].datasetId
            /\ DataSet' = (DataSet \ {d}) \cup {[d EXCEPT !.name = put[k].name]}
       /\ Cardinality(Named(DataSet', put[k].name)) = 1

\* C27, as the specification states it: a rename to a trimmed name that
\* another dataset has is answered 409 and changes no dataset; a successful
\* rename changes the name of its dataset and nothing else; and no
\* successful rename, whatever runs concurrently with it, leaves two datasets
\* with the same name.
C27_Rename == [][\A k \in PutRequests : RenameStep(k)]_vars

\* Without the last part: the lookup and what the update changes.
RenameStepAlone(k) ==
  /\ put[k].pc = "found" /\ put'[k].pc # "found" =>
       /\ (\E d \in DataSet : d.name = put[k].name /\ d.id # put[k].datasetId)
            <=> put'[k].response.status = 409
       /\ UNCHANGED <<DataSet, Product, DailyData>>
  /\ put[k].pc = "checked" /\ put'[k].response.status = 200 =>
       /\ UNCHANGED <<Product, DailyData>>
       /\ \A d \in DataSet : d.id # put[k].datasetId => d \in DataSet'
       /\ \E d \in DataSet :
            /\ d.id = put[k].datasetId
            /\ DataSet' = (DataSet \ {d}) \cup {[d EXCEPT !.name = put[k].name]}

C27_RenameAlone == [][\A k \in PutRequests : RenameStepAlone(k)]_vars

\* C30, as the specification states it: a request to the AI analysis
\* endpoint that carries a non-empty user question together with chart data
\* is answered 200 with an answer, whatever characters the question holds
\* (the answers 404 for a dataset that does not exist and 500 for a failed
\* call of the model left aside).
C30_AnalyzeAnswers ==
  /\ ai.status # 0 /\ Given(ai.userQuestion) /\ ai.chartData
  /\ ai.status \notin {404, 500}
  => ai.status = 200

\* The same for a body that carries the id of a dataset that exists too,
\* when the model gives an answer: every answer other than 200 has a body
\* without such an id or without a question, or is the 500 of a failed call
\* of the model.
C30_AnalyzeAnswersDataSet ==
  /\ ai.status = 200 =>
       /\ Given(ai.userQuestion) /\ Given(ai.dataSetId)
       /\ ai.asked = clean(Units(ai.userQuestion))
  /\ ai.status = 400 => ~Given(ai.userQuestion) \/ ~Given(ai.dataSetId)
  /\ ai.status \notin {0, 200, 400, 404, 500} => FALSE

\* The loaded data is that of the dataset: its products are the products of
\* the dataset.
LoadedFrom(dataSetId) ==
  {page.dataResponse.rawProducts[i].id :
     i \in DOMAIN page.dataResponse.rawProducts}
    = {p.id : p \in {q \in Product : q.dataSetId = dataSetId}}

\* C28, as the specification states it: whenever no chart-data request is in
\* flight and a dataset is selected, the loaded data is that of the selected
\* dataset, in whatever order the responses to the requests of successive
\* selections have arrived.
C28_LoadedIsSelected ==
  (/\ \A i \in DOMAIN inflight : inflight[i].url # "/api/data"
   /\ page.selectedSetId # 0
   /\ page.dataResponse.ok)
    => LoadedFrom(page.selectedSetId)
\* ---- C29

\* The days that can be clicked or closed in the current state.
PanelDays ==
  ActiveLabels \cup {floatingPanels[i].id : i \in DOMAIN floatingPanels}

\* No two panels of ps are panels of the same day.
OnePanelPerDay(ps) ==
  \A i, j \in DOMAIN ps : ps[i].id = ps[j].id => i = j

\* ps2 is ps1 with one more panel, of the day, and the others as they were.
OneOpened(ps1, ps2, day) ==
  /\ Len(ps2) = Len(ps1) + 1
  /\ SubSeq(ps2, 1, Len(ps1)) = ps1
  /\ ps2[Len(ps2)].id = day
  /\ ps2[Len(ps2)].data.day = day

\* ps2 is ps1 without the panel of the day, and the others as they were.
OneClosed(ps1, ps2, day) ==
  /\ Len(ps2) = Len(ps1) - 1
  /\ ~HasPanel(ps2, day)
  /\ \A i \in DOMAIN ps1 :
       ps1[i].id # day => \E j \in DOMAIN ps2 : ps2[j] = ps1[i]

PanelStep ==
  /\ OnePanelPerDay(floatingPanels')
  /\ \A day \in PanelDays :
       /\ (handleChartClick(day) /\ ~HasPanel(floatingPanels, day))
            => OneOpened(floatingPanels, floatingPanels', day)
       /\ (handleChartClick(day) /\ HasPanel(floatingPanels, day))
            => floatingPanels' = floatingPanels
       /\ handleClosePanel(day)
            => OneClosed(floatingPanels, floatingPanels', day)
  /\ onKey => floatingPanels' = <<>>

\* C29: over every sequence of chart clicks, panel closes and Escape
\* presses there is at most one floating panel per day: a click on a day
\* without a panel opens one panel for it and leaves the others as they
\* were, a click on a day that has a panel changes nothing, closing a panel
\* removes that panel and no other, and Escape removes every panel.
C29_Panels == [][PanelStep]_vars

\* Two panels are open, the second one after a panel was closed (its offset
\* is that of one open panel although it is the third to be opened or
\* later), so clicks and a close have acted.
C29_Witness ==
  /\ Len(floatingPanels) = 2
  /\ floatingPanels[1].id = "Day 1"
  /\ floatingPanels[2].id = "Day 0"
  /\ floatingPanels[1].offset = 25
  /\ floatingPanels[2].offset = 25
  /\ \E e \in floatingPanels[2].data.products : e.productName = "X"

=============================================================================
